---- MODULE Spec2Model ----
(***************************************************************************)
(* Relative-strength scanner: the cross-sectional RS engine                *)
(* (src/utils/rs_engine.py), modelled as a state machine over one scan of  *)
(* compute_stock_rs, plus the pure helpers it is built from.               *)
(*                                                                         *)
(* Numbers.  The engine computes in float64.  The model computes in fixed  *)
(* point over the integers:                                                *)
(*   - a close is a whole price; Log(p) is ln(p) in units of 1e-4;         *)
(*   - a ratio (relative volume, volatility ratio) is in units of          *)
(*     1/RatioScale, a z-score in units of 1/ZScale;                       *)
(*   - a mean and a standard deviation are kept in units of 1/Prec of the  *)
(*     series they are taken of;                                           *)
(*   - a timeframe score is sum(weight% * z), in units of 1/(100*ZScale),  *)
(*     and a composite is sum(weight% * score), so the blends are exact.   *)
(* NaN is a value of its own; every operator that the code lets NaN flow   *)
(* through handles it explicitly.                                          *)
(***************************************************************************)
EXTENDS Integers, Sequences, FiniteSets, TLC

\* ------------------------------------------------------------------------
\* Resolution of the fixed-point arithmetic and size of the bar snapshot
\* ------------------------------------------------------------------------
RatioScale == 1000
ZScale == 1000
Prec == 10
SlopeScale == 10

FullBars == 20
MidBars == 6
ShortBars == 3

\* np.nan
NaN == -999999999

IsNaN(x) == x = NaN

\* ------------------------------------------------------------------------
\* Arithmetic
\* ------------------------------------------------------------------------
Abs(a) == IF a < 0 THEN -a ELSE a

\* a function over 1..n as the sequence of its values
AsSeq(f) == f \o <<>>

\* a / b rounded to the nearest integer, symmetric around zero (b > 0)
RDiv(a, b) ==
    IF a >= 0 THEN (2 * a + b) \div (2 * b)
    ELSE -((2 * (-a) + b) \div (2 * b))

RECURSIVE SqrtSearch(_, _, _)
SqrtSearch(n, lo, hi) ==
    IF lo >= hi THEN lo
    ELSE LET mid == (lo + hi + 1) \div 2
         IN IF mid * mid <= n THEN SqrtSearch(n, mid, hi)
            ELSE SqrtSearch(n, lo, mid - 1)

\* floor of the square root
ISqrt(n) == SqrtSearch(n, 0, 46340)

\* np.log on the prices the snapshot holds, in units of 1e-4
LnTable ==
    << 44998, 45109, 45218, 45326, 45433, 45539, 45643, 45747, 45850, 45951,
       46052, 46151, 46250, 46347, 46444, 46540, 46634, 46728, 46821, 46913,
       47005, 47095, 47185, 47274, 47362, 47449, 47536, 47622, 47707, 47791,
       47875, 47958, 48040, 48122, 48203, 48283, 48363, 48442, 48520, 48598,
       48675 >>

Log(p) == LnTable[p - 89]

\* ------------------------------------------------------------------------
\* pandas Series reductions (skipna=True, ddof=1)
\* ------------------------------------------------------------------------
Defined(s) == {i \in DOMAIN s : ~IsNaN(s[i])}

RECURSIVE SumOver(_, _)
SumOver(s, I) ==
    IF I = {} THEN 0
    ELSE LET i == CHOOSE j \in I : TRUE
         IN s[i] + SumOver(s, I \ {i})

\* Series.iloc[-n:]
LastN(s, n) == SubSeq(s, Len(s) - n + 1, Len(s))

\* Series.mean(): NaN entries skipped; in units of 1/Prec
Mean(s) ==
    LET I == Defined(s)
    IN IF I = {} THEN NaN
       ELSE RDiv(SumOver(s, I) * Prec, Cardinality(I))

\* Series.std(): sample standard deviation (ddof=1), NaN entries skipped,
\* NaN when fewer than two values are left; in units of 1/Prec
Std(s) ==
    LET I == Defined(s)
        n == Cardinality(I)
        mean == Mean(s)
        sq == AsSeq([i \in DOMAIN s |->
                       IF i \in I
                       THEN (s[i] * Prec - mean) * (s[i] * Prec - mean)
                       ELSE 0])
    IN IF n < 2 THEN NaN
       ELSE ISqrt(SumOver(sq, I) \div (n - 1))

\* ------------------------------------------------------------------------
\* Helpers (rs_engine.py)
\* ------------------------------------------------------------------------

\* df["close"], df["volume"]
CloseOf(df) == AsSeq([i \in 1..Len(df) |-> df[i].close])
VolumeOf(df) == AsSeq([i \in 1..Len(df) |-> df[i].volume])

\* np.polyfit(x, y, 1)[0] for x = 0..len(y)-1: the least-squares slope
\*   sum((x - mx) * y) / sum((x - mx)^2), with 2*(x - mx) = 2x - (n - 1)
PolyfitSlope(y) ==
    LET n == Len(y)
        dx == AsSeq([k \in 1..n |-> 2 * (k - 1) - (n - 1)])
        num == SumOver(AsSeq([k \in 1..n |-> dx[k] * y[k]]), 1..n)
        den == SumOver(AsSeq([k \in 1..n |-> dx[k] * dx[k]]), 1..n)
    IN RDiv(2 * num * SlopeScale, den)

\* Log-linear slope over lookback bars; in units of 1e-4/SlopeScale per bar
compute_slope(series, lookback) ==
    IF Len(series) < lookback THEN NaN
    ELSE LET tail == LastN(series, lookback)
             y == AsSeq([k \in 1..lookback |-> Log(tail[k])])
         IN PolyfitSlope(y)

\* Log-return of stock minus log-return of benchmark; .iloc[-1] is the last
\* bar and .iloc[-lookback] the first bar of the trailing lookback window
compute_relative_strength(stock_close, bench_close, lookback) ==
    IF Len(stock_close) < lookback \/ Len(bench_close) < lookback THEN NaN
    ELSE LET stock_ret == Log(stock_close[Len(stock_close)])
                          - Log(stock_close[Len(stock_close) - lookback + 1])
             bench_ret == Log(bench_close[Len(bench_close)])
                          - Log(bench_close[Len(bench_close) - lookback + 1])
         IN stock_ret - bench_ret

\* Current bar volume / average volume over lookback
compute_relative_volume(volume, lookback) ==
    IF Len(volume) < lookback THEN NaN
    ELSE LET avg_vol == Mean(LastN(volume, lookback))
         IN IF avg_vol = 0 THEN NaN
            ELSE RDiv(volume[Len(volume)] * Prec * RatioScale, avg_vol)

\* np.log(close / close.shift(1)): the first entry has no predecessor
LogReturns(close) ==
    AsSeq([i \in 1..Len(close) |->
             IF i = 1 THEN NaN ELSE Log(close[i]) - Log(close[i - 1])])

\* Stock realized vol / benchmark realized vol
compute_volatility_ratio(stock_close, bench_close, lookback) ==
    IF Len(stock_close) < lookback \/ Len(bench_close) < lookback THEN NaN
    ELSE LET stock_vol == Std(LastN(LogReturns(stock_close), lookback))
             bench_vol == Std(LastN(LogReturns(bench_close), lookback))
         IN IF bench_vol = 0 THEN NaN
            ELSE IF IsNaN(stock_vol) \/ IsNaN(bench_vol) THEN NaN
            ELSE RDiv(stock_vol * RatioScale, bench_vol)

sign(x) ==
    IF IsNaN(x) THEN 0
    ELSE IF x > 0 THEN 1 ELSE IF x < 0 THEN -1 ELSE 0

\* zscore without its guard: the division by a zero or NaN std gives NaN
zscore_unguarded(series) ==
    LET mean == Mean(series)
        std == Std(series)
    IN AsSeq([i \in DOMAIN series |->
                IF IsNaN(series[i]) \/ IsNaN(std) \/ std = 0 THEN NaN
                ELSE RDiv((series[i] * Prec - mean) * ZScale, std)])

\* the difference taken the wrong way round: (mean - series) / std
zscore_reversed(series) ==
    LET mean == Mean(series)
        std == Std(series)
    IN IF std = 0 \/ IsNaN(std) THEN AsSeq([i \in DOMAIN series |-> 0])
       ELSE AsSeq([i \in DOMAIN series |->
                     IF IsNaN(series[i]) THEN NaN
                     ELSE RDiv((mean - series[i] * Prec) * ZScale, std)])

\* the distance from the mean without its direction: |series - mean| / std
zscore_unsigned(series) ==
    LET mean == Mean(series)
        std == Std(series)
    IN IF std = 0 \/ IsNaN(std) THEN AsSeq([i \in DOMAIN series |-> 0])
       ELSE AsSeq([i \in DOMAIN series |->
                     IF IsNaN(series[i]) THEN NaN
                     ELSE RDiv(Abs(series[i] * Prec - mean) * ZScale, std)])

\* Z-score normalize a series: 0 everywhere for NaN or zero std, else
\* (series - mean) / std, where a NaN entry stays NaN
zscore(series) ==
    LET mean == Mean(series)
        std == Std(series)
    IN IF std = 0 \/ IsNaN(std) THEN AsSeq([i \in DOMAIN series |-> 0])
       ELSE AsSeq([i \in DOMAIN series |->
                     IF IsNaN(series[i]) THEN NaN
                     ELSE RDiv((series[i] * Prec - mean) * ZScale, std)])

\* ------------------------------------------------------------------------
\* Scoring
\* ------------------------------------------------------------------------

\* weights, in percent
W_SLOPE == 35
W_RS == 35
W_RVOL == 15
W_VOL_ADJ == 15

W_WEEKLY == 40
W_DAILY == 35
W_HOURLY == 25

\* the literals of the two-factor composite
W2_WEEKLY == 55
W2_DAILY == 45

BENCHMARK == "SPY"

\* the lookbacks compute_stock_rs passes for each timeframe
WEEKLY_LB == 4
DAILY_SLOPE_LB == 5
DAILY_LB == 10
HOURLY_SLOPE_LB == 10
HOURLY_LB == 20

\* float arithmetic lets NaN through
Neg(a) == IF IsNaN(a) THEN NaN ELSE -a
Add(a, b) == IF IsNaN(a) \/ IsNaN(b) THEN NaN ELSE a + b
Times(k, a) == IF IsNaN(a) THEN NaN ELSE k * a

\* Series.fillna(0)
fillna0(a) == IF IsNaN(a) THEN 0 ELSE a

\* Compute raw indicator values for a single symbol + timeframe
collect_raw_components(stock_df, bench_df, slope_lb, rs_lb, rvol_lb, vol_lb) ==
    [slope |-> compute_slope(CloseOf(stock_df), slope_lb),
     rs |-> compute_relative_strength(CloseOf(stock_df), CloseOf(bench_df), rs_lb),
     rvol |-> compute_relative_volume(VolumeOf(stock_df), rvol_lb),
     vol_ratio |-> compute_volatility_ratio(CloseOf(stock_df), CloseOf(bench_df), vol_lb)]

\* f"{prefix}_{name}"
Col(prefix, name) == prefix \o "_" \o name

\* df[col] of a DataFrame held as the sequence of its rows
Column(frame, col) == AsSeq([i \in 1..Len(frame) |-> frame[i][col]])

\* df.columns (of a DataFrame with at least one row)
Columns(frame) == DOMAIN frame[1]

\* the blend without fillna(0): an undefined z-score makes the score undefined
Blend_without_fillna(z_slope, z_rs, z_rvol, z_vol) ==
    Add(Add(Times(W_SLOPE, z_slope), Times(W_RS, z_rs)),
        Add(Times(W_RVOL, z_rvol), Times(W_VOL_ADJ, z_vol)))

\* the blended score of one row
Blend(z_slope, z_rs, z_rvol, z_vol) ==
    Add(Add(Times(W_SLOPE, fillna0(z_slope)), Times(W_RS, fillna0(z_rs))),
        Add(Times(W_RVOL, fillna0(z_rvol)), Times(W_VOL_ADJ, fillna0(z_vol))))

\* the volatility ratio z-scored as it stands
not_negated(a) == a

\* the volatility ratio as it enters its z-score: -df[f"{prefix}_vol_ratio"]
negated(a) == Neg(a)

\* Z-score the four raw columns of one timeframe across the universe, then
\* add the blended score and the bias to every row
zscore_and_score(raw_df, prefix) ==
    LET z_slope == zscore(Column(raw_df, Col(prefix, "slope")))
        z_rs == zscore(Column(raw_df, Col(prefix, "rs")))
        z_rvol == zscore(Column(raw_df, Col(prefix, "rvol")))
        vol_ratio == Column(raw_df, Col(prefix, "vol_ratio"))
        z_vol == zscore(AsSeq([i \in 1..Len(raw_df) |-> negated(vol_ratio[i])]))
        score == AsSeq([i \in 1..Len(raw_df) |->
                          Blend(z_slope[i], z_rs[i], z_rvol[i], z_vol[i])])
    IN AsSeq([i \in 1..Len(raw_df) |->
          raw_df[i] @@ (Col(prefix, "z_slope") :> z_slope[i]
                        @@ Col(prefix, "z_rs") :> z_rs[i]
                        @@ Col(prefix, "z_rvol") :> z_rvol[i]
                        @@ Col(prefix, "z_vol") :> z_vol[i]
                        @@ Col(prefix, "score") :> score[i]
                        @@ Col(prefix, "bias") :> sign(score[i]))])

\* ------------------------------------------------------------------------
\* Spot scan engine (spot_engine.py): the helpers
\* ------------------------------------------------------------------------

\* one bar with the columns the spot engine reads
Candle(h, l, c, v) == [high |-> h, low |-> l, close |-> c, volume |-> v]

Max2(a, b) == IF a >= b THEN a ELSE b
Min2(a, b) == IF a <= b THEN a ELSE b

\* pd.concat([high - low, |high - prev_close|, |low - prev_close|]).max(axis=1)
\* at bar i, whose predecessor is bar i - 1
TrueRange(df, i) ==
    Max2(df[i].high - df[i].low,
         Max2(Abs(df[i].high - df[i - 1].close),
              Abs(df[i].low - df[i - 1].close)))

\* the mean of the true range over every bar of the frame that has a
\* predecessor, not only over the trailing window
compute_atr_whole_frame(df, lookback) ==
    IF Len(df) < lookback + 1 THEN NaN
    ELSE Mean(AsSeq([i \in 1..(Len(df) - 1) |-> TrueRange(df, i + 1)]))

\* the guard left out: the mean is taken over the bars there are
compute_atr_unguarded(df, lookback) ==
    IF Len(df) < 2 THEN 0
    ELSE LET n == Min2(lookback, Len(df) - 1)
             window == LastN(df, n + 1)
         IN Mean(AsSeq([i \in 1..n |-> TrueRange(window, i + 1)]))

\* Average True Range over lookback bars, in units of 1/Prec: the last
\* lookback + 1 bars give lookback true ranges (the first bar only lends its
\* close), and rolling(lookback).mean().iloc[-1] is their mean
compute_atr(df, lookback) ==
    IF Len(df) < lookback + 1 THEN NaN
    ELSE LET window == LastN(df, lookback + 1)
             tr == AsSeq([i \in 1..lookback |-> TrueRange(window, i + 1)])
         IN Mean(tr)

\* Range consumed for the most recent trading day, in units of 1/RatioScale
compute_daily_range_consumed(daily_df, daily_atr) ==
    IF Len(daily_df) = 0 \/ IsNaN(daily_atr) \/ daily_atr = 0 THEN NaN
    ELSE LET last_row == daily_df[Len(daily_df)]
         IN RDiv((last_row.close - last_row.low) * Prec * RatioScale, daily_atr)

\* Range consumed for the most recent trading week
compute_weekly_range_consumed(weekly_df, weekly_atr) ==
    IF Len(weekly_df) = 0 \/ IsNaN(weekly_atr) \/ weekly_atr = 0 THEN NaN
    ELSE LET last_row == weekly_df[Len(weekly_df)]
         IN RDiv((last_row.close - last_row.low) * Prec * RatioScale, weekly_atr)

\* the benchmark's return left out
compute_intraday_rs_stock_only(stock_close, bench_close, lb) ==
    IF Len(stock_close) < lb \/ Len(bench_close) < lb THEN NaN
    ELSE Log(stock_close[Len(stock_close)])
         - Log(stock_close[Len(stock_close) - lb + 1])

\* Log-return RS over lookback bars (intraday timeframe)
compute_intraday_rs(stock_close, bench_close, lb) ==
    IF Len(stock_close) < lb \/ Len(bench_close) < lb THEN NaN
    ELSE LET stock_ret == Log(stock_close[Len(stock_close)])
                          - Log(stock_close[Len(stock_close) - lb + 1])
             bench_ret == Log(bench_close[Len(bench_close)])
                          - Log(bench_close[Len(bench_close) - lb + 1])
         IN stock_ret - bench_ret

\* atr_lb: int = 14, and the 14 of the three compute_atr calls of
\* spot_scan_symbol
ATR_LB == 14

\* Score a single intraday timeframe
score_intraday_tf(stock_df, bench_df, rs_lb) ==
    [rs |-> compute_intraday_rs(CloseOf(stock_df), CloseOf(bench_df), rs_lb),
     atr |-> compute_atr(stock_df, ATR_LB),
     rvol |-> IF Len(stock_df) >= rs_lb
              THEN LET avg_vol == Mean(LastN(VolumeOf(stock_df), rs_lb))
                       last_vol == stock_df[Len(stock_df)].volume
                   IN IF avg_vol > 0
                      THEN RDiv(last_vol * Prec * RatioScale, avg_vol)
                      ELSE NaN
              ELSE NaN]

\* lookback_20d: int = 20
LOOKBACK_20D == 20

RECURSIVE MaxOver(_, _)
MaxOver(s, I) ==
    LET i == CHOOSE j \in I : TRUE
    IN IF I = {i} THEN s[i] ELSE Max2(s[i], MaxOver(s, I \ {i}))

RECURSIVE MinOver(_, _)
MinOver(s, I) ==
    LET i == CHOOSE j \in I : TRUE
    IN IF I = {i} THEN s[i] ELSE Min2(s[i], MinOver(s, I \ {i}))

\* (current - level) / current * 100 if current else nan, in units of
\* 1/RatioScale of a percent
PctFrom(current, level) ==
    IF current = 0 THEN NaN ELSE RDiv((current - level) * 100 * RatioScale, current)

\* Compute distance from key price levels
compute_levels(daily_df) ==
    IF Len(daily_df) = 0
    THEN [price |-> NaN, daily_high |-> NaN, daily_low |-> NaN,
          pct_from_daily_high |-> NaN, pct_from_daily_low |-> NaN,
          high_20d |-> NaN, low_20d |-> NaN,
          pct_from_20d_high |-> NaN, pct_from_20d_low |-> NaN]
    ELSE LET last_day == daily_df[Len(daily_df)]
             current == last_day.close
             recent == IF Len(daily_df) >= LOOKBACK_20D
                       THEN LastN(daily_df, LOOKBACK_20D) ELSE daily_df
             high_20d == MaxOver(AsSeq([i \in 1..Len(recent) |-> recent[i].high]),
                                 1..Len(recent))
             low_20d == MinOver(AsSeq([i \in 1..Len(recent) |-> recent[i].low]),
                                1..Len(recent))
         IN [price |-> current,
             daily_high |-> last_day.high,
             daily_low |-> last_day.low,
             pct_from_daily_high |-> PctFrom(current, last_day.high),
             pct_from_daily_low |-> PctFrom(current, last_day.low),
             high_20d |-> high_20d,
             low_20d |-> low_20d,
             pct_from_20d_high |-> PctFrom(current, high_20d),
             pct_from_20d_low |-> PctFrom(current, low_20d)]

\* the intraday weights, in percent
W_1H == 50
W_15M == 30
W_5M == 20

\* _sign without its NaN test: the comparisons alone decide
spot_sign_unguarded(x) == IF x > 0 THEN 1 ELSE IF x < 0 THEN -1 ELSE 0

\* spot_engine._sign
spot_sign(x) ==
    IF IsNaN(x) THEN 0
    ELSE IF x > 0 THEN 1 ELSE IF x < 0 THEN -1 ELSE 0

\* the rs_lb of the three _score_intraday_tf calls
RS_LB_1H == 10
RS_LB_15M == 16
RS_LB_5M == 12

\* `len(stock_5m) >= 12` and `.iloc[-20:]`, `len(stock_daily) >= 20`
MIN_5M_BARS == 12
RVOL_DAILY_LB == 20

\* what spot_scan_symbol returns for a symbol it skips
None == [symbol |-> "None"]

\* every timeframe weighs its base weight against a denominator of 1.0
total_weight_base(scores) == W_1H + W_15M + W_5M

\* sum(w for _, _, w in scores)
total_weight(scores) ==
    SumOver(AsSeq([k \in 1..Len(scores) |-> scores[k][3]]), 1..Len(scores))

\* sum(rs * w) / total_weight over the scores gathered, in units of
\* 1e-4/Prec; NaN when no score was gathered
intraday_composite_of(scores) ==
    IF scores = <<>> THEN NaN
    ELSE RDiv(SumOver(AsSeq([k \in 1..Len(scores) |->
                               scores[k][2] * scores[k][3]]),
                      1..Len(scores)) * Prec,
              total_weight(scores))

\* aligned as long as no two biases differ, a zero bias included
intraday_aligned_ignoring_zero(biases) ==
    Cardinality({biases[k] : k \in DOMAIN biases}) = 1

\* len(set(biases)) == 1 and 0 not in biases and len(biases) > 0
intraday_aligned_of(biases) ==
    LET set == {biases[k] : k \in DOMAIN biases}
    IN Cardinality(set) = 1 /\ 0 \notin set /\ Len(biases) > 0

\* the 5m bars themselves are read: their last volume over their mean volume
rvol_daily_from_5m(stock_daily, stock_5m, has_5m) ==
    IF has_5m /\ Len(stock_5m) >= MIN_5M_BARS
    THEN LET avg == Mean(VolumeOf(stock_5m))
         IN IF avg > 0
            THEN RDiv(stock_5m[Len(stock_5m)].volume * Prec * RatioScale, avg)
            ELSE NaN
    ELSE NaN

\* lines 268-274: the daily relative volume, in units of 1/RatioScale;
\* has_5m says that stock_5m is not None
rvol_daily_of(stock_daily, stock_5m, has_5m) ==
    IF has_5m /\ Len(stock_5m) >= MIN_5M_BARS
    THEN LET today_vol == IF Len(stock_daily) # 0
                          THEN stock_daily[Len(stock_daily)].volume ELSE NaN
             avg_vol_20d == IF Len(stock_daily) >= RVOL_DAILY_LB
                            THEN Mean(LastN(VolumeOf(stock_daily), RVOL_DAILY_LB))
                            ELSE NaN
         IN IF avg_vol_20d # 0 /\ ~IsNaN(avg_vol_20d) /\ avg_vol_20d > 0
            THEN RDiv(today_vol * Prec * RatioScale, avg_vol_20d)
            ELSE NaN
    ELSE NaN

\* ------------------------------------------------------------------------
\* The bar snapshot of one scan
\* ------------------------------------------------------------------------
STOCK_SYMBOLS == <<"AAPL", "MSFT", "NVDA">>

SECTOR_MAP == [s \in {"AAPL", "MSFT", "NVDA"} |-> "XLK"]

\* the order in which main() fills the maps handed to compute_stock_rs: the
\* stocks in STOCK_SYMBOLS order, then the benchmark
KeyOrder == STOCK_SYMBOLS \o <<BENCHMARK>>

Symbols == {KeyOrder[i] : i \in 1..Len(KeyOrder)}

Bar(c, v) == [close |-> c, volume |-> v]

\* bar series of n bars, oldest first
UpFrame(n) == AsSeq([i \in 1..n |-> Bar(100 + i, IF i = n THEN 1500 ELSE 1000)])
DnFrame(n) == AsSeq([i \in 1..n |-> Bar(125 - i, 1000)])
ZigFrame(n) ==
    AsSeq([i \in 1..n |-> Bar(100 + 3 * (i % 2), IF i = n THEN 500 ELSE 1000)])
BenchFrame(n) == AsSeq([i \in 1..n |-> Bar(100 + (i % 3), 1000)])

\* a symbol the data source returned no bars for is left out of the map
Absent == <<>>

\* What each map may hold for each symbol.  Between them the three stocks
\* cover: a stock missing from the daily, the weekly or the hourly map, series
\* too short for some or all lookbacks, equal series for two stocks (ties),
\* and three stocks with pairwise different series.
DailyOptions(s) ==
    CASE s = BENCHMARK -> {Absent, BenchFrame(FullBars)}
      [] s = "AAPL" -> {UpFrame(FullBars), DnFrame(FullBars)}
      [] s = "MSFT" -> {Absent, UpFrame(FullBars), DnFrame(FullBars)}
      [] s = "NVDA" -> {Absent, ZigFrame(FullBars), UpFrame(MidBars)}

WeeklyOptions(s) ==
    CASE s = BENCHMARK -> {Absent, BenchFrame(FullBars)}
      [] s = "AAPL" -> {Absent, UpFrame(FullBars), DnFrame(FullBars)}
      [] s = "MSFT" -> {UpFrame(FullBars), DnFrame(FullBars)}
      [] s = "NVDA" -> {ZigFrame(FullBars), UpFrame(ShortBars)}

HourlyOptions(s) ==
    CASE s = BENCHMARK -> {Absent, BenchFrame(FullBars)}
      [] s = "AAPL" -> {Absent, UpFrame(ShortBars), UpFrame(FullBars)}
      [] s = "MSFT" -> {Absent, DnFrame(FullBars)}
      [] s = "NVDA" -> {Absent, ZigFrame(FullBars)}

Options(timeframe, s) ==
    IF timeframe = "daily" THEN DailyOptions(s)
    ELSE IF timeframe = "weekly" THEN WeeklyOptions(s)
    ELSE HourlyOptions(s)

EmptyMap == [s \in {} |-> Absent]

\* the maps over the given keys that hold, for each key, one of its options
RECURSIVE MapsOver(_, _)
MapsOver(timeframe, keys) ==
    IF keys = <<>> THEN {EmptyMap}
    ELSE {IF o = Absent THEN m ELSE (Head(keys) :> o) @@ m :
             o \in Options(timeframe, Head(keys)),
             m \in MapsOver(timeframe, Tail(keys))}

\* in how many of the maps handed to the engine the benchmark may be missing
MaxBenchGaps == 1

BenchGaps(maps) ==
    Cardinality({k \in DOMAIN maps : BENCHMARK \notin DOMAIN maps[k]})

VARIABLES
    data_daily,       \* dict symbol -> DataFrame
    data_weekly,      \* dict symbol -> DataFrame
    data_hourly,      \* dict symbol -> DataFrame ({} when not supplied)
    hourly_supplied,  \* FALSE: data_hourly is None
    pc,               \* where compute_stock_rs stands
    has_hourly,
    idx,              \* position of the pass-1 loop in data_daily
    rows,
    symbols_used,
    warned,           \* logger.warning calls, by symbol
    df,               \* the DataFrame of pass 2
    result,           \* the DataFrame returned
    error,            \* the exception raised ("" for none)
    series,           \* the argument of a helper called on its own
    returned,         \* what that call returned
    bench,            \* the second series of a helper called on its own
    lookback,         \* its lookback
    data_1h,          \* dict symbol -> DataFrame (spot scan)
    data_15m,         \* dict symbol -> DataFrame (spot scan)
    data_5m,          \* dict symbol -> DataFrame (spot scan)
    results,          \* the rows spot_scan_universe has gathered
    sort_memo,        \* the frames sort_values has been called on, with what
                      \* it returned for each
    previous,         \* the call before this one: its arguments and its outcome
    scans             \* the number of this call

vars == <<data_daily, data_weekly, data_hourly, hourly_supplied, pc, has_hourly,
          idx, rows, symbols_used, warned, df, result, error, series, returned,
          bench, lookback, data_1h, data_15m, data_5m, results,
          sort_memo, previous, scans>>

\* the variables of a scan and those of a helper call
scan == <<data_daily, data_weekly, data_hourly, hourly_supplied, pc, has_hourly,
          idx, rows, symbols_used, warned, df, result, error>>

call == <<series, returned, bench, lookback>>

\* what the spot scan reads and gathers besides the daily and weekly maps
spot == <<data_1h, data_15m, data_5m, results>>

\* what is kept of the calls made so far
history == <<sort_memo, previous, scans>>

NoPrevious == [pc |-> "none", snapshot |-> <<>>, result |-> <<>>, error |-> ""]

\* the first call
NoHistory ==
    /\ sort_memo = {}
    /\ previous = NoPrevious
    /\ scans = 1

snapshot == <<data_daily, data_weekly, data_hourly, hourly_supplied>>

Init ==
    /\ NoHistory
    /\ data_daily \in MapsOver("daily", KeyOrder)
    /\ data_weekly \in MapsOver("weekly", KeyOrder)
    /\ \/ hourly_supplied = FALSE /\ data_hourly = EmptyMap
       \/ hourly_supplied = TRUE /\ data_hourly \in MapsOver("hourly", KeyOrder)
    /\ BenchGaps(IF hourly_supplied
                 THEN <<data_daily, data_weekly, data_hourly>>
                 ELSE <<data_daily, data_weekly>>) <= MaxBenchGaps
    /\ pc = "start"
    /\ has_hourly = FALSE
    /\ idx = 0
    /\ rows = <<>>
    /\ symbols_used = <<>>
    /\ warned = <<>>
    /\ df = <<>>
    /\ result = <<>>
    /\ error = ""
    /\ series = <<>>
    /\ returned = <<>>
    /\ bench = <<>>
    /\ lookback = 0
    /\ data_1h = EmptyMap
    /\ data_15m = EmptyMap
    /\ data_5m = EmptyMap
    /\ results = <<>>

\* ------------------------------------------------------------------------
\* Main engine: compute_stock_rs
\* ------------------------------------------------------------------------

\* `for symbol in data_daily`: the keys of the daily map, in dict order
DailyKeys == SelectSeq(KeyOrder, LAMBDA s : s \in DOMAIN data_daily)

\* the check with the weekly map forgotten
benchmark_missing_daily_only == BENCHMARK \notin DOMAIN data_daily

\* the check extended to an hourly map that was supplied
benchmark_missing_any_supplied ==
    \/ BENCHMARK \notin DOMAIN data_daily
    \/ BENCHMARK \notin DOMAIN data_weekly
    \/ (hourly_supplied /\ BENCHMARK \notin DOMAIN data_hourly)

\* spy_daily is None or spy_weekly is None
benchmark_missing ==
    BENCHMARK \notin DOMAIN data_daily \/ BENCHMARK \notin DOMAIN data_weekly

\* spy_hourly = data_hourly.get(BENCHMARK) if data_hourly else None
\* has_hourly = data_hourly is not None and spy_hourly is not None
hourly_available ==
    /\ hourly_supplied
    /\ DOMAIN data_hourly # {}
    /\ BENCHMARK \in DOMAIN data_hourly

\* SECTOR_MAP.get(symbol)
SectorOf(symbol) ==
    IF symbol \in DOMAIN SECTOR_MAP THEN SECTOR_MAP[symbol] ELSE "None"

\* the dict of one symbol built by pass 1
RawRow(symbol) ==
    LET w == collect_raw_components(data_weekly[symbol], data_weekly[BENCHMARK],
                                    WEEKLY_LB, WEEKLY_LB, WEEKLY_LB, WEEKLY_LB)
        d == collect_raw_components(data_daily[symbol], data_daily[BENCHMARK],
                                    DAILY_SLOPE_LB, DAILY_LB, DAILY_LB, DAILY_LB)
        row == [symbol |-> symbol,
                sector |-> SectorOf(symbol),
                weekly_slope |-> w.slope,
                weekly_rs |-> w.rs,
                weekly_rvol |-> w.rvol,
                weekly_vol_ratio |-> w.vol_ratio,
                daily_slope |-> d.slope,
                daily_rs |-> d.rs,
                daily_rvol |-> d.rvol,
                daily_vol_ratio |-> d.vol_ratio]
    IN IF has_hourly /\ symbol \in DOMAIN data_hourly
       THEN LET h == collect_raw_components(data_hourly[symbol],
                                            data_hourly[BENCHMARK],
                                            HOURLY_SLOPE_LB, HOURLY_LB,
                                            HOURLY_LB, HOURLY_LB)
            IN row @@ [hourly_slope |-> h.slope,
                       hourly_rs |-> h.rs,
                       hourly_rvol |-> h.rvol,
                       hourly_vol_ratio |-> h.vol_ratio]
       ELSE row

\* pd.DataFrame(rows): the columns are the union of the keys of the dicts, and
\* a row without a key holds NaN in its column
DataFrame(dicts) ==
    LET cols == UNION {DOMAIN dicts[i] : i \in 1..Len(dicts)}
    IN AsSeq([i \in 1..Len(dicts) |->
          dicts[i] @@ [c \in cols \ DOMAIN dicts[i] |-> NaN]])

composite3(r) ==
    Add(Add(Times(W_WEEKLY, r.weekly_score), Times(W_DAILY, r.daily_score)),
        Times(W_HOURLY, r.hourly_score))

composite2(r) ==
    Add(Times(W2_WEEKLY, r.weekly_score), Times(W2_DAILY, r.daily_score))

\* the agreement left out: 0 not in set(r) alone
aligned_of_nonzero(biases) ==
    LET set == {biases[k] : k \in DOMAIN biases}
    IN 0 \notin set

\* len(set(r)) == 1 and 0 not in set(r)
aligned_of(biases) ==
    LET set == {biases[k] : k \in DOMAIN biases}
    IN Cardinality(set) = 1 /\ 0 \notin set

\* Pass 2: z-score across the universe, score, composite, aligned
score_universe(raw_df, hourly) ==
    LET wd == zscore_and_score(zscore_and_score(raw_df, "weekly"), "daily")
    IN IF hourly /\ "hourly_slope" \in Columns(wd)
       THEN LET wdh == zscore_and_score(wd, "hourly")
            IN AsSeq([i \in 1..Len(wdh) |->
                  wdh[i] @@ [composite_score |-> composite3(wdh[i]),
                             aligned |-> aligned_of(<<wdh[i].weekly_bias,
                                                      wdh[i].daily_bias,
                                                      wdh[i].hourly_bias>>)]])
       ELSE AsSeq([i \in 1..Len(wd) |->
                  wd[i] @@ [composite_score |-> composite2(wd[i]),
                            aligned |-> aligned_of(<<wd[i].weekly_bias,
                                                     wd[i].daily_bias>>)]])

\* the order of sort_values(ascending=True)
KeyBefore_ascending(a, b) == ~IsNaN(a) /\ (IsNaN(b) \/ a < b)

\* the order of sort_values(ascending=False, na_position="first")
KeyBefore_nan_first(a, b) == ~IsNaN(b) /\ (IsNaN(a) \/ a > b)

\* sort_values(ascending=False) puts a before b when a's key is greater; NaN
\* keys go last
KeyBefore(a, b) == ~IsNaN(a) /\ (IsNaN(b) \/ a > b)

\* The orders sort_values(col, ascending=False) can leave the rows in.  Its
\* default kind is "quicksort", which is not stable: rows with equal keys come
\* out in an order the call does not fix.
RECURSIVE SortedOrders(_, _, _)
SortedOrders(frame, col, I) ==
    IF I = {} THEN {<<>>}
    ELSE LET first == {i \in I : \A j \in I : ~KeyBefore(frame[j][col], frame[i][col])}
         IN UNION {{<<i>> \o t : t \in SortedOrders(frame, col, I \ {i})} : i \in first}

\* df.sort_values(col, ascending=False).reset_index(drop=True)
sort_values_desc(frame, col) ==
    {AsSeq([k \in 1..Len(frame) |-> frame[order[k]]]) :
        order \in SortedOrders(frame, col, 1..Len(frame))}

\* sort_values is a function of the frame: called again on a frame it has
\* sorted before, it returns the same order again.  Which order it leaves
\* rows with equal keys in is open only the first time a frame is sorted.
sort_values_again(frame, col) ==
    LET known == {m \in sort_memo : m[1] = <<frame, col>>}
    IN IF known # {} THEN {m[2] : m \in known} ELSE sort_values_desc(frame, col)

\* `break` in the place of `continue`: the loop ends
after_break(i) == Len(DailyKeys) + 1

\* `continue`: the loop goes on with the next key
after_continue(i) == i + 1

\* the read takes the entry out of the dict, as dict.pop(key, None) does
after_pop(map, key) == [k \in DOMAIN map \ {key} |-> map[k]]

\* dict.get(key) leaves the dict as it is
after_get(map, key) == map

\* lines 148-150: the benchmark is looked up in the three maps
ReadsBenchmark ==
    /\ data_daily' = after_get(data_daily, BENCHMARK)
    /\ data_weekly' = after_get(data_weekly, BENCHMARK)
    /\ data_hourly' = after_get(data_hourly, BENCHMARK)
    /\ UNCHANGED hourly_supplied

\* lines 148-153: the benchmark is missing
RaiseMissingBenchmark ==
    /\ pc = "start"
    /\ benchmark_missing
    /\ pc' = "raised"
    /\ error' = "SPY missing from daily or weekly data"
    /\ ReadsBenchmark
    /\ UNCHANGED <<history, call, spot, has_hourly, idx, rows, symbols_used, warned, df, result>>

\* the list is not started afresh: the rows of the call before stay in it
rows_kept == rows

\* rows = []
rows_new == <<>>

\* lines 148-159
Start ==
    /\ pc = "start"
    /\ ~benchmark_missing
    /\ has_hourly' = hourly_available
    /\ rows' = rows_new
    /\ symbols_used' = <<>>
    /\ idx' = 1
    /\ pc' = "pass1"
    /\ ReadsBenchmark
    /\ UNCHANGED <<history, call, spot, warned, df, result, error>>

\* the test left out: every key of the daily map is taken for a stock
skips_nothing(symbol) == FALSE

\* line 162: if symbol == BENCHMARK
skips_benchmark(symbol) == symbol = BENCHMARK

\* lines 161-163: the benchmark itself gets no row
Pass1SkipBenchmark ==
    /\ pc = "pass1"
    /\ idx <= Len(DailyKeys)
    /\ skips_benchmark(DailyKeys[idx])
    /\ idx' = after_continue(idx)
    /\ UNCHANGED <<history, call, spot, snapshot, pc, has_hourly, rows, symbols_used, warned, df, result, error>>

\* lines 164-166: no weekly data, warn and go on
Pass1SkipNoWeekly ==
    /\ pc = "pass1"
    /\ idx <= Len(DailyKeys)
    /\ ~skips_benchmark(DailyKeys[idx])
    /\ DailyKeys[idx] \notin DOMAIN data_weekly
    /\ warned' = Append(warned, DailyKeys[idx])
    /\ idx' = after_continue(idx)
    /\ UNCHANGED <<history, call, spot, snapshot, pc, has_hourly, rows, symbols_used, df, result, error>>

\* lines 168-202: the raw components of one symbol
Pass1Collect ==
    /\ pc = "pass1"
    /\ idx <= Len(DailyKeys)
    /\ ~skips_benchmark(DailyKeys[idx])
    /\ DailyKeys[idx] \in DOMAIN data_weekly
    /\ rows' = Append(rows, RawRow(DailyKeys[idx]))
    /\ symbols_used' = Append(symbols_used, DailyKeys[idx])
    /\ idx' = idx + 1
    /\ UNCHANGED <<history, call, spot, snapshot, pc, has_hourly, warned, df, result, error>>

\* the frame is built as soon as the loop has handled its first key
pass1_streaming == idx > 1

\* the `for symbol in data_daily` loop of lines 161-202 has run through every
\* key; only then line 204 is reached
pass1_finished == idx > Len(DailyKeys)

\* lines 204-207: no row at all, the empty DataFrame is returned
ReturnEmpty ==
    /\ pc = "pass1"
    /\ pass1_finished
    /\ rows = <<>>
    /\ df' = <<>>
    /\ result' = <<>>
    /\ pc' = "done"
    /\ UNCHANGED <<history, call, spot, snapshot, has_hourly, idx, rows, symbols_used, warned, error>>

\* lines 204-231
Pass2 ==
    /\ pc = "pass1"
    /\ pass1_finished
    /\ rows # <<>>
    /\ df' = score_universe(DataFrame(rows), has_hourly)
    /\ pc' = "sort"
    /\ UNCHANGED <<history, call, spot, snapshot, has_hourly, idx, rows, symbols_used, warned, result, error>>

\* lines 233-235
SortAndReturn ==
    /\ pc = "sort"
    /\ result' \in sort_values_again(df, "composite_score")
    /\ sort_memo' = sort_memo \cup {<<<<df, "composite_score">>, result'>>}
    /\ pc' = "done"
    /\ UNCHANGED <<previous, scans, call, spot, snapshot, has_hourly, idx, rows, symbols_used, warned, df, error>>

Next ==
    \/ RaiseMissingBenchmark
    \/ Start
    \/ Pass1SkipBenchmark
    \/ Pass1SkipNoWeekly
    \/ Pass1Collect
    \/ ReturnEmpty
    \/ Pass2
    \/ SortAndReturn

Spec == Init /\ [][Next]_vars

\* ------------------------------------------------------------------------
\* Spot scan engine (spot_engine.py): one symbol
\* ------------------------------------------------------------------------

\* a DataFrame, or the empty frame where the code holds None
GetOr(map, key) == IF key \in DOMAIN map THEN map[key] ELSE <<>>

\* Full spot scan for a single symbol: a dict of all metrics, or None if the
\* daily data of the symbol or of the benchmark is missing
spot_scan_symbol(symbol) ==
    IF symbol \notin DOMAIN data_daily \/ BENCHMARK \notin DOMAIN data_daily
    THEN None
    ELSE
    LET stock_daily == data_daily[symbol]
        has_weekly == symbol \in DOMAIN data_weekly
        has_1h == symbol \in DOMAIN data_1h
        has_5m == symbol \in DOMAIN data_5m
        stock_weekly == GetOr(data_weekly, symbol)
        weekly_atr == IF has_weekly THEN compute_atr(stock_weekly, ATR_LB) ELSE NaN
        daily_atr == compute_atr(stock_daily, ATR_LB)
        hourly_atr == IF has_1h THEN compute_atr(data_1h[symbol], ATR_LB) ELSE NaN
        daily_consumed == compute_daily_range_consumed(stock_daily, daily_atr)
        weekly_consumed == IF has_weekly
                           THEN compute_weekly_range_consumed(stock_weekly, weekly_atr)
                           ELSE NaN
        levels == compute_levels(stock_daily)
        \* h1, m15, m5 are None unless both the stock and the benchmark have
        \* the timeframe
        h1_some == has_1h /\ BENCHMARK \in DOMAIN data_1h
        m15_some == symbol \in DOMAIN data_15m /\ BENCHMARK \in DOMAIN data_15m
        m5_some == has_5m /\ BENCHMARK \in DOMAIN data_5m
        nothing == [rs |-> NaN, atr |-> NaN, rvol |-> NaN]
        h1 == IF h1_some
              THEN score_intraday_tf(data_1h[symbol], data_1h[BENCHMARK], RS_LB_1H)
              ELSE nothing
        m15 == IF m15_some
               THEN score_intraday_tf(data_15m[symbol], data_15m[BENCHMARK], RS_LB_15M)
               ELSE nothing
        m5 == IF m5_some
              THEN score_intraday_tf(data_5m[symbol], data_5m[BENCHMARK], RS_LB_5M)
              ELSE nothing
        scores == (IF h1_some /\ ~IsNaN(h1.rs) THEN <<<<"1h", h1.rs, W_1H>>>> ELSE <<>>)
                  \o (IF m15_some /\ ~IsNaN(m15.rs) THEN <<<<"15m", m15.rs, W_15M>>>> ELSE <<>>)
                  \o (IF m5_some /\ ~IsNaN(m5.rs) THEN <<<<"5m", m5.rs, W_5M>>>> ELSE <<>>)
        intraday_composite == intraday_composite_of(scores)
        rvol_daily == rvol_daily_of(stock_daily, GetOr(data_5m, symbol), has_5m)
        biases == (IF h1_some THEN <<spot_sign(h1.rs)>> ELSE <<>>)
                  \o (IF m15_some THEN <<spot_sign(m15.rs)>> ELSE <<>>)
                  \o (IF m5_some THEN <<spot_sign(m5.rs)>> ELSE <<>>)
        aligned == intraday_aligned_of(biases)
    IN [symbol |-> symbol,
        sector |-> SectorOf(symbol),
        price |-> levels.price,
        weekly_atr |-> weekly_atr,
        daily_atr |-> daily_atr,
        hourly_atr |-> hourly_atr,
        daily_range_consumed |-> daily_consumed,
        weekly_range_consumed |-> weekly_consumed,
        rvol_daily |-> rvol_daily,
        intraday_composite |-> intraday_composite,
        intraday_bias |-> spot_sign(intraday_composite),
        intraday_aligned |-> aligned,
        daily_high |-> levels.daily_high,
        daily_low |-> levels.daily_low,
        pct_from_daily_high |-> levels.pct_from_daily_high,
        pct_from_daily_low |-> levels.pct_from_daily_low,
        high_20d |-> levels.high_20d,
        low_20d |-> levels.low_20d,
        pct_from_20d_high |-> levels.pct_from_20d_high,
        pct_from_20d_low |-> levels.pct_from_20d_low]
       @@ ("1h_rs" :> h1.rs) @@ ("15m_rs" :> m15.rs) @@ ("5m_rs" :> m5.rs)
       @@ ("1h_rvol" :> h1.rvol) @@ ("15m_rvol" :> m15.rvol) @@ ("5m_rvol" :> m5.rvol)
       @@ ("1h_atr" :> h1.atr) @@ ("15m_atr" :> m15.atr) @@ ("5m_atr" :> m5.atr)

\* ------------------------------------------------------------------------
\* zscore called on its own, on a cross-section column drawn from a small set
\* ------------------------------------------------------------------------
MaxColumn == 3

ColumnValues == {NaN, 10, 20, 30, 50}

InitZscore ==
    /\ NoHistory
    /\ \E n \in 1..MaxColumn : series \in [1..n -> ColumnValues]
    /\ returned = <<>>
    /\ pc = "call"
    /\ data_daily = EmptyMap
    /\ data_weekly = EmptyMap
    /\ data_hourly = EmptyMap
    /\ hourly_supplied = FALSE
    /\ has_hourly = FALSE
    /\ idx = 0
    /\ rows = <<>>
    /\ symbols_used = <<>>
    /\ warned = <<>>
    /\ df = <<>>
    /\ result = <<>>
    /\ error = ""
    /\ bench = <<>>
    /\ lookback = 0
    /\ data_1h = EmptyMap
    /\ data_15m = EmptyMap
    /\ data_5m = EmptyMap
    /\ results = <<>>

CallZscore ==
    /\ pc = "call"
    /\ returned' = zscore(series)
    /\ pc' = "returned"
    /\ UNCHANGED <<history, series, bench, lookback, spot, snapshot, has_hourly, idx, rows,
                   symbols_used, warned, df, result, error>>

NextZscore == CallZscore

SpecZscore == InitZscore /\ [][NextZscore]_vars

\* ------------------------------------------------------------------------
\* The indicators called on their own, on bar series drawn from a small set
\* ------------------------------------------------------------------------
MaxBars == 5

Lookbacks == {2, 3}

\* n bars, oldest first; each bar reaches one above and one below its close
RiseCandles(n) ==
    AsSeq([i \in 1..n |-> Candle(101 + i, 99 + i, 100 + i,
                                 IF i = n THEN 1500 ELSE 1000)])
GapCandles(n) ==
    AsSeq([i \in 1..n |-> Candle(101 + 3 * i, 99 + 3 * i, 100 + 3 * i, 1000)])
FallCandles(n) ==
    AsSeq([i \in 1..n |-> Candle(126 - 2 * i, 124 - 2 * i, 125 - 2 * i, 800 + 100 * i)])
\* no movement and no volume
QuietCandles(n) == AsSeq([i \in 1..n |-> Candle(100, 100, 100, 0)])
\* one bar with a wide range in front of a series
WildThen(frame) == <<Candle(130, 90, 110, 1000)>> \o frame

StockCandles ==
    UNION {{RiseCandles(n), GapCandles(n), FallCandles(n), QuietCandles(n)} :
              n \in 0..MaxBars}
    \cup {WildThen(RiseCandles(n)) : n \in 2..(MaxBars - 1)}
    \cup {WildThen(GapCandles(n)) : n \in 2..(MaxBars - 1)}
    \cup {RiseCandles(2) \o FallCandles(n) : n \in 1..(MaxBars - 2)}

BenchCandles ==
    UNION {{RiseCandles(n), FallCandles(n), QuietCandles(n)} : n \in 0..MaxBars}

\* every variable of the scans, at rest
NoScan ==
    /\ data_daily = EmptyMap
    /\ data_weekly = EmptyMap
    /\ data_hourly = EmptyMap
    /\ hourly_supplied = FALSE
    /\ has_hourly = FALSE
    /\ idx = 0
    /\ rows = <<>>
    /\ symbols_used = <<>>
    /\ warned = <<>>
    /\ df = <<>>
    /\ result = <<>>
    /\ error = ""
    /\ data_1h = EmptyMap
    /\ data_15m = EmptyMap
    /\ data_5m = EmptyMap
    /\ results = <<>>

InitIndicator ==
    /\ NoHistory
    /\ series \in StockCandles
    /\ bench \in BenchCandles
    /\ lookback \in Lookbacks
    /\ returned = <<>>
    /\ pc = "call"
    /\ NoScan

\* one call of an indicator, and what it returned
Returns(fn, value) ==
    /\ pc = "call"
    /\ returned' = [fn |-> fn, value |-> value]
    /\ pc' = "returned"
    /\ UNCHANGED <<history, series, bench, lookback, spot, snapshot, has_hourly, idx, rows,
                   symbols_used, warned, df, result, error>>

CallSlope == Returns("slope", compute_slope(CloseOf(series), lookback))

CallRelativeStrength ==
    Returns("relative_strength",
            compute_relative_strength(CloseOf(series), CloseOf(bench), lookback))

CallIntradayRs ==
    Returns("intraday_rs",
            compute_intraday_rs(CloseOf(series), CloseOf(bench), lookback))

CallRelativeVolume ==
    Returns("relative_volume", compute_relative_volume(VolumeOf(series), lookback))

CallVolatilityRatio ==
    Returns("volatility_ratio",
            compute_volatility_ratio(CloseOf(series), CloseOf(bench), lookback))

CallAtr == Returns("atr", compute_atr(series, lookback))

\* compute_levels(daily_df) with its default lookback of 20 bars
CallLevels ==
    /\ pc = "call"
    /\ returned' = [fn |-> "levels", value |-> compute_levels(series)]
    /\ pc' = "levels"
    /\ UNCHANGED <<history, series, bench, lookback, spot, snapshot, has_hourly, idx, rows,
                   symbols_used, warned, df, result, error>>

\* the same relative strength asked with the two series exchanged
CallExchanged ==
    /\ pc = "returned"
    /\ returned.fn \in {"relative_strength", "intraday_rs"}
    /\ returned' =
          [fn |-> returned.fn,
           value |-> returned.value,
           exchanged |->
              IF returned.fn = "relative_strength"
              THEN compute_relative_strength(CloseOf(bench), CloseOf(series), lookback)
              ELSE compute_intraday_rs(CloseOf(bench), CloseOf(series), lookback)]
    /\ pc' = "exchanged"
    /\ UNCHANGED <<history, series, bench, lookback, spot, snapshot, has_hourly, idx, rows,
                   symbols_used, warned, df, result, error>>

NextIndicator ==
    \/ CallSlope
    \/ CallRelativeStrength
    \/ CallIntradayRs
    \/ CallRelativeVolume
    \/ CallVolatilityRatio
    \/ CallAtr
    \/ CallLevels
    \/ CallExchanged

SpecIndicator == InitIndicator /\ [][NextIndicator]_vars

\* ------------------------------------------------------------------------
\* Spot scan engine (spot_engine.py): the universe
\* ------------------------------------------------------------------------

\* bar series of n bars for the spot scan, closes falling by one a bar
SlideCandles(n) ==
    AsSeq([i \in 1..n |-> Candle(126 - i, 124 - i, 125 - i, 1000)])
\* closes going round 100, 101, 102
RangeCandles(n) ==
    AsSeq([i \in 1..n |-> Candle(101 + (i % 3), 99 + (i % 3), 100 + (i % 3), 1000)])

\* What each map of the spot scan may hold for each symbol: a symbol or the
\* benchmark missing from a timeframe, series too short for the relative
\* strength, for the 5m gate or for the 20-day volume, a stock moving with
\* the benchmark (relative strength zero), and no volume at all.
SpotDailyOptions(s) ==
    CASE s = BENCHMARK -> {Absent, RangeCandles(FullBars)}
      [] s = "AAPL" -> {RiseCandles(FullBars), RiseCandles(FullBars - 1),
                        QuietCandles(FullBars)}
      [] s = "MSFT" -> {Absent, SlideCandles(FullBars)}
      [] s = "NVDA" -> {RiseCandles(FullBars)}

SpotWeeklyOptions(s) ==
    CASE s = BENCHMARK -> {RangeCandles(FullBars)}
      [] s = "AAPL" -> {RiseCandles(FullBars)}
      [] s = "MSFT" -> {Absent}
      [] s = "NVDA" -> {RiseCandles(ShortBars)}

Spot1hOptions(s) ==
    CASE s = BENCHMARK -> {Absent, RangeCandles(FullBars)}
      [] s = "AAPL" -> {Absent, RiseCandles(FullBars), RiseCandles(ShortBars)}
      [] s = "MSFT" -> {SlideCandles(FullBars)}
      [] s = "NVDA" -> {RiseCandles(FullBars), RangeCandles(FullBars)}

Spot15mOptions(s) ==
    CASE s = BENCHMARK -> {RangeCandles(FullBars)}
      [] s = "AAPL" -> {Absent, RiseCandles(FullBars), SlideCandles(FullBars),
                        RiseCandles(ShortBars)}
      [] s = "MSFT" -> {SlideCandles(FullBars)}
      [] s = "NVDA" -> {RangeCandles(FullBars)}

Spot5mOptions(s) ==
    CASE s = BENCHMARK -> {Absent, RangeCandles(FullBars)}
      [] s = "AAPL" -> {Absent, RiseCandles(FullBars), RiseCandles(MIN_5M_BARS - 1)}
      [] s = "MSFT" -> {SlideCandles(FullBars)}
      [] s = "NVDA" -> {RangeCandles(FullBars)}

SpotOptions(timeframe, s) ==
    IF timeframe = "daily" THEN SpotDailyOptions(s)
    ELSE IF timeframe = "weekly" THEN SpotWeeklyOptions(s)
    ELSE IF timeframe = "1h" THEN Spot1hOptions(s)
    ELSE IF timeframe = "15m" THEN Spot15mOptions(s)
    ELSE Spot5mOptions(s)

RECURSIVE SpotMapsOver(_, _)
SpotMapsOver(timeframe, keys) ==
    IF keys = <<>> THEN {EmptyMap}
    ELSE {IF o = Absent THEN m ELSE (Head(keys) :> o) @@ m :
             o \in SpotOptions(timeframe, Head(keys)),
             m \in SpotMapsOver(timeframe, Tail(keys))}

InitSpot ==
    /\ NoHistory
    /\ data_daily \in SpotMapsOver("daily", KeyOrder)
    /\ data_weekly \in SpotMapsOver("weekly", KeyOrder)
    /\ data_1h \in SpotMapsOver("1h", KeyOrder)
    /\ data_15m \in SpotMapsOver("15m", KeyOrder)
    /\ data_5m \in SpotMapsOver("5m", KeyOrder)
    /\ data_hourly = EmptyMap
    /\ hourly_supplied = FALSE
    /\ pc = "spot_start"
    /\ has_hourly = FALSE
    /\ idx = 0
    /\ rows = <<>>
    /\ symbols_used = <<>>
    /\ warned = <<>>
    /\ df = <<>>
    /\ result = <<>>
    /\ error = ""
    /\ series = <<>>
    /\ returned = <<>>
    /\ bench = <<>>
    /\ lookback = 0
    /\ results = <<>>

\* the maps handed to spot_scan_universe
spot_snapshot == <<data_daily, data_weekly, data_1h, data_15m, data_5m>>

\* line 351
SpotStart ==
    /\ pc = "spot_start"
    /\ results' = <<>>
    /\ idx' = 1
    /\ pc' = "spot_loop"
    /\ UNCHANGED <<history, call, spot_snapshot, data_hourly, hourly_supplied, has_hourly,
                   rows, symbols_used, warned, df, result, error>>

\* lines 212-222: the benchmark and the symbol are looked up in the five maps
SpotReads(symbol) ==
    /\ data_daily' = after_get(after_get(data_daily, BENCHMARK), symbol)
    /\ data_weekly' = after_get(after_get(data_weekly, BENCHMARK), symbol)
    /\ data_1h' = after_get(after_get(data_1h, BENCHMARK), symbol)
    /\ data_15m' = after_get(after_get(data_15m, BENCHMARK), symbol)
    /\ data_5m' = after_get(after_get(data_5m, BENCHMARK), symbol)

\* lines 353-355: the benchmark itself gets no row
SpotSkipBenchmark ==
    /\ pc = "spot_loop"
    /\ idx <= Len(DailyKeys)
    /\ DailyKeys[idx] = BENCHMARK
    /\ idx' = idx + 1
    /\ UNCHANGED <<history, call, spot, snapshot, pc, has_hourly, rows, symbols_used,
                   warned, df, result, error>>

\* lines 357-361 with 224-226: spot_scan_symbol warns and returns None
SpotSkipNone ==
    /\ pc = "spot_loop"
    /\ idx <= Len(DailyKeys)
    /\ DailyKeys[idx] # BENCHMARK
    /\ spot_scan_symbol(DailyKeys[idx]) = None
    /\ warned' = Append(warned, DailyKeys[idx])
    /\ idx' = idx + 1
    /\ SpotReads(DailyKeys[idx])
    /\ UNCHANGED <<history, call, results, data_hourly, hourly_supplied, pc, has_hourly,
                   rows, symbols_used, df, result, error>>

\* lines 357-362: the row of one symbol
SpotAppend ==
    /\ pc = "spot_loop"
    /\ idx <= Len(DailyKeys)
    /\ DailyKeys[idx] # BENCHMARK
    /\ spot_scan_symbol(DailyKeys[idx]) # None
    /\ results' = Append(results, spot_scan_symbol(DailyKeys[idx]))
    /\ idx' = idx + 1
    /\ SpotReads(DailyKeys[idx])
    /\ UNCHANGED <<history, call, data_hourly, hourly_supplied, pc, has_hourly,
                   rows, symbols_used, warned, df, result, error>>

\* lines 364-367: no row at all, the empty DataFrame is returned
SpotReturnEmpty ==
    /\ pc = "spot_loop"
    /\ idx > Len(DailyKeys)
    /\ results = <<>>
    /\ df' = <<>>
    /\ result' = <<>>
    /\ pc' = "spot_done"
    /\ UNCHANGED <<history, call, spot, snapshot, has_hourly, idx, rows, symbols_used,
                   warned, error>>

\* lines 364-370
SpotSortAndReturn ==
    /\ pc = "spot_loop"
    /\ idx > Len(DailyKeys)
    /\ results # <<>>
    /\ df' = DataFrame(results)
    /\ result' \in sort_values_again(DataFrame(results), "intraday_composite")
    /\ sort_memo' = sort_memo \cup {<<<<DataFrame(results), "intraday_composite">>, result'>>}
    /\ pc' = "spot_done"
    /\ UNCHANGED <<previous, scans, call, spot, snapshot, has_hourly, idx, rows, symbols_used,
                   warned, error>>

NextSpot ==
    \/ SpotStart
    \/ SpotSkipBenchmark
    \/ SpotSkipNone
    \/ SpotAppend
    \/ SpotReturnEmpty
    \/ SpotSortAndReturn

SpecSpot == InitSpot /\ [][NextSpot]_vars

\* ------------------------------------------------------------------------
\* compute_stock_rs on a universe of two stocks, X = AAPL and Y = MSFT
\* ------------------------------------------------------------------------

\* FullBars bars that stay at base and end in the closes of tail; the last
\* bar has volume v_last, the others 1000
Shaped(base, tail, v_last) ==
    AsSeq([i \in 1..FullBars |->
             Bar(IF i <= FullBars - Len(tail) THEN base
                 ELSE tail[i - (FullBars - Len(tail))],
                 IF i = FullBars THEN v_last ELSE 1000)])

\* up over the RS lookback, but through a spike that has come back: the
\* slope over the last bars points down
SpikeUpDaily(v_last) == Shaped(100, <<100, 112, 100, 100, 101>>, v_last)
SpikeUpWeekly(v_last) == Shaped(100, <<100, 112, 100, 101>>, v_last)
\* down over the RS lookback, through a dip that has come back
SpikeDnDaily(v_last) == Shaped(102, <<102, 92, 102, 102, 100>>, v_last)
SpikeDnWeekly(v_last) == Shaped(102, <<102, 92, 101, 100>>, v_last)

PairDailyOptions(s) ==
    CASE s = BENCHMARK -> {Absent, BenchFrame(FullBars)}
      [] s = "AAPL" -> {UpFrame(FullBars), SpikeUpDaily(500), SpikeUpDaily(1500)}
      [] s = "MSFT" -> {DnFrame(FullBars), SpikeDnDaily(1000)}
      [] OTHER -> {Absent}

PairWeeklyOptions(s) ==
    CASE s = BENCHMARK -> {BenchFrame(FullBars)}
      [] s = "AAPL" -> {Absent, UpFrame(FullBars), SpikeUpWeekly(500)}
      [] s = "MSFT" -> {Absent, DnFrame(FullBars), SpikeDnWeekly(1000)}
      [] OTHER -> {Absent}

PairHourlyOptions(s) ==
    CASE s = BENCHMARK -> {BenchFrame(FullBars)}
      [] s = "AAPL" -> {UpFrame(FullBars)}
      [] s = "MSFT" -> {DnFrame(FullBars)}
      [] OTHER -> {Absent}

PairOptions(timeframe, s) ==
    IF timeframe = "daily" THEN PairDailyOptions(s)
    ELSE IF timeframe = "weekly" THEN PairWeeklyOptions(s)
    ELSE PairHourlyOptions(s)

RECURSIVE PairMapsOver(_, _)
PairMapsOver(timeframe, keys) ==
    IF keys = <<>> THEN {EmptyMap}
    ELSE {IF o = Absent THEN m ELSE (Head(keys) :> o) @@ m :
             o \in PairOptions(timeframe, Head(keys)),
             m \in PairMapsOver(timeframe, Tail(keys))}

InitPair ==
    /\ NoHistory
    /\ data_daily \in PairMapsOver("daily", KeyOrder)
    /\ data_weekly \in PairMapsOver("weekly", KeyOrder)
    /\ \/ hourly_supplied = FALSE /\ data_hourly = EmptyMap
       \/ hourly_supplied = TRUE /\ data_hourly \in PairMapsOver("hourly", KeyOrder)
    /\ pc = "start"
    /\ has_hourly = FALSE
    /\ idx = 0
    /\ rows = <<>>
    /\ symbols_used = <<>>
    /\ warned = <<>>
    /\ df = <<>>
    /\ result = <<>>
    /\ error = ""
    /\ series = <<>>
    /\ returned = <<>>
    /\ bench = <<>>
    /\ lookback = 0
    /\ data_1h = EmptyMap
    /\ data_15m = EmptyMap
    /\ data_5m = EmptyMap
    /\ results = <<>>

SpecPair == InitPair /\ [][Next]_vars

\* ------------------------------------------------------------------------
\* Both engines: a scan is either one of compute_stock_rs or one of
\* spot_scan_universe
\* ------------------------------------------------------------------------
InitEngines == Init \/ InitSpot

NextEngines == Next \/ NextSpot

SpecEngines == InitEngines /\ [][NextEngines]_vars

\* ------------------------------------------------------------------------
\* compute_stock_rs on a universe where two stocks differ by their volatility
\* alone
\* ------------------------------------------------------------------------

\* Steady and rough end in the same closes and the same volumes, and stand at
\* the same close where the relative-strength window starts; they differ in
\* closes that only the volatility ratio reads (daily: the bars between the
\* start of the 10-bar window and the 5 bars of the slope; weekly: the bar
\* before the 4-bar window).
SteadyDaily == Shaped(100, <<100, 101, 102, 103, 104>>, 1000)
RoughDaily == Shaped(100, <<103, 97, 103, 100, 100, 101, 102, 103, 104>>, 1000)
SteadyWeekly == Shaped(100, <<100, 101, 102, 103>>, 1000)
RoughWeekly == Shaped(100, <<95, 100, 101, 102, 103>>, 1000)

CalmDailyOptions(s) ==
    CASE s = BENCHMARK -> {Absent, BenchFrame(FullBars)}
      [] s = "AAPL" -> {SteadyDaily, RoughDaily}
      [] s = "MSFT" -> {SteadyDaily, RoughDaily}
      [] s = "NVDA" -> {DnFrame(FullBars), ZigFrame(FullBars)}

CalmWeeklyOptions(s) ==
    CASE s = BENCHMARK -> {BenchFrame(FullBars)}
      [] s = "AAPL" -> {Absent, SteadyWeekly, RoughWeekly}
      [] s = "MSFT" -> {Absent, SteadyWeekly, RoughWeekly}
      [] s = "NVDA" -> {Absent, DnFrame(FullBars)}

CalmOptions(timeframe, s) ==
    IF timeframe = "daily" THEN CalmDailyOptions(s) ELSE CalmWeeklyOptions(s)

RECURSIVE CalmMapsOver(_, _)
CalmMapsOver(timeframe, keys) ==
    IF keys = <<>> THEN {EmptyMap}
    ELSE {IF o = Absent THEN m ELSE (Head(keys) :> o) @@ m :
             o \in CalmOptions(timeframe, Head(keys)),
             m \in CalmMapsOver(timeframe, Tail(keys))}

InitCalm ==
    /\ NoHistory
    /\ data_daily \in CalmMapsOver("daily", KeyOrder)
    /\ data_weekly \in CalmMapsOver("weekly", KeyOrder)
    /\ hourly_supplied = FALSE
    /\ data_hourly = EmptyMap
    /\ pc = "start"
    /\ has_hourly = FALSE
    /\ idx = 0
    /\ rows = <<>>
    /\ symbols_used = <<>>
    /\ warned = <<>>
    /\ df = <<>>
    /\ result = <<>>
    /\ error = ""
    /\ series = <<>>
    /\ returned = <<>>
    /\ bench = <<>>
    /\ lookback = 0
    /\ data_1h = EmptyMap
    /\ data_15m = EmptyMap
    /\ data_5m = EmptyMap
    /\ results = <<>>

SpecCalm == InitCalm /\ [][Next]_vars

\* ------------------------------------------------------------------------
\* One scan after another: the engines are called again, on the same maps
\* or on others, by a process that keeps running
\* ------------------------------------------------------------------------
MaxScans == 2

\* a map from the symbols given to the frames given
MapOf(symbols, frames) ==
    [s \in {symbols[i] : i \in 1..Len(symbols)} |->
        frames[CHOOSE i \in 1..Len(symbols) : symbols[i] = s]]

\* the arguments of a call of compute_stock_rs: two stocks with the same
\* bars (their scores tie) or with different ones, a stock or every stock
\* without weekly bars, the benchmark missing
RsCalls ==
    {[engine |-> "rs", daily |-> d, weekly |-> w, hourly |-> h[2],
      hourly_supplied |-> h[1], h1 |-> EmptyMap, m15 |-> EmptyMap, m5 |-> EmptyMap] :
        d \in {MapOf(<<"AAPL", "MSFT", BENCHMARK>>,
                     <<UpFrame(FullBars), UpFrame(FullBars), BenchFrame(FullBars)>>),
               MapOf(<<"AAPL", "MSFT", BENCHMARK>>,
                     <<UpFrame(FullBars), DnFrame(FullBars), BenchFrame(FullBars)>>),
               MapOf(<<"AAPL", "MSFT">>, <<UpFrame(FullBars), UpFrame(FullBars)>>)},
        w \in {MapOf(<<"AAPL", "MSFT", BENCHMARK>>,
                     <<UpFrame(FullBars), UpFrame(FullBars), BenchFrame(FullBars)>>),
               MapOf(<<"MSFT", BENCHMARK>>, <<DnFrame(FullBars), BenchFrame(FullBars)>>),
               MapOf(<<BENCHMARK>>, <<BenchFrame(FullBars)>>)},
        h \in {<<FALSE, EmptyMap>>,
               <<TRUE, MapOf(<<"AAPL", "MSFT", BENCHMARK>>,
                             <<UpFrame(FullBars), DnFrame(FullBars),
                               BenchFrame(FullBars)>>)>>}}

\* the arguments of a call of spot_scan_universe: two stocks with the same
\* bars and one with others, the benchmark missing from the daily map, a
\* stock missing from the 5m map
SpotCalls ==
    LET all == MapOf(<<"AAPL", "MSFT", "NVDA", BENCHMARK>>,
                     <<RiseCandles(FullBars), SlideCandles(FullBars),
                       RiseCandles(FullBars), RangeCandles(FullBars)>>)
    IN {[engine |-> "spot", daily |-> d, weekly |-> all, hourly |-> EmptyMap,
         hourly_supplied |-> FALSE, h1 |-> all, m15 |-> all, m5 |-> m] :
           d \in {all,
                  MapOf(<<"AAPL", "MSFT", "NVDA">>,
                        <<RiseCandles(FullBars), SlideCandles(FullBars),
                          RiseCandles(FullBars)>>)},
           m \in {all,
                  MapOf(<<"MSFT", "NVDA", BENCHMARK>>,
                        <<SlideCandles(FullBars), RiseCandles(FullBars),
                          RangeCandles(FullBars)>>)}}

\* the arguments of the call that is running
arguments ==
    [engine |-> IF pc \in {"spot_start", "spot_loop", "spot_done"} THEN "spot" ELSE "rs",
     daily |-> data_daily, weekly |-> data_weekly, hourly |-> data_hourly,
     hourly_supplied |-> hourly_supplied,
     h1 |-> data_1h, m15 |-> data_15m, m5 |-> data_5m]

InitRescan ==
    /\ NoHistory
    /\ \E c \in RsCalls \cup SpotCalls :
          /\ data_daily = c.daily
          /\ data_weekly = c.weekly
          /\ data_hourly = c.hourly
          /\ hourly_supplied = c.hourly_supplied
          /\ data_1h = c.h1
          /\ data_15m = c.m15
          /\ data_5m = c.m5
          /\ pc = IF c.engine = "rs" THEN "start" ELSE "spot_start"
    /\ has_hourly = FALSE
    /\ idx = 0
    /\ rows = <<>>
    /\ symbols_used = <<>>
    /\ warned = <<>>
    /\ df = <<>>
    /\ result = <<>>
    /\ error = ""
    /\ series = <<>>
    /\ returned = <<>>
    /\ bench = <<>>
    /\ lookback = 0
    /\ results = <<>>

\* The call before has returned or raised, and an engine is called again.
\* Only the arguments and the place of the return value are new: whatever the
\* call before left in rows, results, df and the other names stays where it
\* is, for the new call to overwrite or not.
Rescan ==
    /\ pc \in {"done", "raised", "spot_done"}
    /\ scans < MaxScans
    /\ scans' = scans + 1
    /\ previous' = [pc |-> pc, snapshot |-> arguments, result |-> result,
                    error |-> error]
    /\ \E c \in RsCalls \cup SpotCalls :
          /\ data_daily' = c.daily
          /\ data_weekly' = c.weekly
          /\ data_hourly' = c.hourly
          /\ hourly_supplied' = c.hourly_supplied
          /\ data_1h' = c.h1
          /\ data_15m' = c.m15
          /\ data_5m' = c.m5
          /\ pc' = IF c.engine = "rs" THEN "start" ELSE "spot_start"
    /\ result' = <<>>
    /\ error' = ""
    /\ UNCHANGED <<sort_memo, call, has_hourly, idx, rows, symbols_used, warned,
                   df, results>>

NextRescan == Next \/ NextSpot \/ Rescan

SpecRescan == InitRescan /\ [][NextRescan]_vars

\* ------------------------------------------------------------------------
\* Reporting layer (reports.py): _latest_per_day on the loaded history
\* ------------------------------------------------------------------------

\* how many scan files the history holds at most
MaxFiles == 3

ReportSymbols == <<"AAPL", "MSFT">>

\* the scan_timestamp log_scan writes, "%Y%m%d_%H%M%S", as the number its
\* digits after the year 2026 spell (month, day, hour, minute, second)
ScanStamps == {225093000, 225143022, 226093000, 226143022}

\* scan_date, "%Y%m%d" of the same instant, as the number its digits spell
DateOf(stamp) == 20260000 + stamp \div 1000000

\* the order of two "%Y%m%d_%H%M%S" strings
StampBefore(a, b) == a < b

\* What one scan file may hold: a row for some of the symbols, each with its
\* hourly_score filled or left blank (a symbol scanned without hourly data).
ScanContents ==
    UNION {[S -> BOOLEAN] :
             S \in SUBSET {ReportSymbols[i] : i \in 1..Len(ReportSymbols)} \ {{}}}

\* the rows of scan file number k, written at stamp; every value names the
\* scan and the symbol it comes from
RowsOfScan(k, stamp, content) ==
    LET present == SelectSeq(ReportSymbols, LAMBDA s : s \in DOMAIN content)
    IN AsSeq([i \in 1..Len(present) |->
          [symbol |-> present[i],
           scan_date |-> DateOf(stamp),
           scan_timestamp |-> stamp,
           composite_score |-> 10 * k + i,
           hourly_score |-> IF content[present[i]] THEN 100 + 10 * k + i ELSE NaN]])

\* _load_all_scans: the files in the order of their names, which begin with
\* the timestamp, concatenated
RECURSIVE LoadedFrom(_, _)
LoadedFrom(k, stamps) ==
    IF k > MaxFiles THEN {<<>>}
    ELSE {<<>>} \cup
         UNION {{RowsOfScan(k, st, c) \o rest :
                    c \in ScanContents,
                    rest \in LoadedFrom(k + 1, {s \in stamps : ~StampBefore(s, st)})} :
                  st \in stamps}

\* df.sort_values("scan_timestamp"): ascending; the default quicksort leaves
\* rows with equal timestamps in an order the call does not fix
RECURSIVE AscendingOrders(_, _)
AscendingOrders(frame, I) ==
    IF I = {} THEN {<<>>}
    ELSE LET first == {i \in I : \A j \in I :
                          ~StampBefore(frame[j].scan_timestamp, frame[i].scan_timestamp)}
         IN UNION {{<<i>> \o t : t \in AscendingOrders(frame, I \ {i})} : i \in first}

sort_values_by_timestamp(frame) ==
    {AsSeq([k \in 1..Len(frame) |-> frame[order[k]]]) :
        order \in AscendingOrders(frame, 1..Len(frame))}

\* the keys of groupby(["symbol", "scan_date"])
GroupKey(r) == <<r.symbol, r.scan_date>>

GroupKeys(frame) == {GroupKey(frame[i]) : i \in 1..Len(frame)}

\* the rows of one group, in the order of the frame
GroupOf(frame, key) == SelectSeq(frame, LAMBDA r : GroupKey(r) = key)

\* GroupBy.last() on one column of one group: the last value that is not
\* NaN, NaN when there is none
last_of(group, col) ==
    LET I == {i \in 1..Len(group) : ~IsNaN(group[i][col])}
    IN IF I = {} THEN NaN
       ELSE group[CHOOSE i \in I : \A j \in I : j <= i][col]

\* the groups come out sorted by their keys (sort=True): by symbol, then by
\* scan_date
SymbolRank(s) == CHOOSE i \in 1..Len(ReportSymbols) : ReportSymbols[i] = s

GroupKeyBefore(a, b) ==
    \/ SymbolRank(a[1]) < SymbolRank(b[1])
    \/ (a[1] = b[1] /\ a[2] < b[2])

RECURSIVE SortedKeys(_)
SortedKeys(K) ==
    IF K = {} THEN <<>>
    ELSE LET k == CHOOSE a \in K : \A b \in K \ {a} : GroupKeyBefore(a, b)
         IN <<k>> \o SortedKeys(K \ {k})

\* .groupby(["symbol", "scan_date"]).last().reset_index()
groupby_last(frame) ==
    LET keys == SortedKeys(GroupKeys(frame))
        cols == DOMAIN frame[1] \ {"symbol", "scan_date"}
    IN AsSeq([g \in 1..Len(keys) |->
          [symbol |-> keys[g][1], scan_date |-> keys[g][2]]
            @@ [c \in cols |-> last_of(GroupOf(frame, keys[g]), c)]])

\* what _latest_per_day can return for a frame
latest_per_day(frame) ==
    IF frame = <<>> THEN {frame}
    ELSE {groupby_last(sorted) : sorted \in sort_values_by_timestamp(frame)}

InitReport ==
    /\ NoHistory
    /\ series \in LoadedFrom(1, ScanStamps)
    /\ returned = <<>>
    /\ bench = <<>>
    /\ lookback = 0
    /\ pc = "report_call"
    /\ NoScan

\* lines 32-44
CallLatestPerDay ==
    /\ pc = "report_call"
    /\ returned' \in latest_per_day(series)
    /\ pc' = "report_done"
    /\ UNCHANGED <<history, series, bench, lookback, spot, snapshot, has_hourly, idx, rows,
                   symbols_used, warned, df, result, error>>

NextReport == CallLatestPerDay

SpecReport == InitReport /\ [][NextReport]_vars

\* ------------------------------------------------------------------------
\* Properties of compute_stock_rs
\* ------------------------------------------------------------------------
Stocks == Symbols \ {BENCHMARK}

\* hourly data the scan can use for a symbol: the symbol and the benchmark are
\* both in the hourly map
HourlyPresent(symbol) == hourly_available /\ symbol \in DOMAIN data_hourly

HourlyColumns ==
    {Col("hourly", n) : n \in {"slope", "rs", "rvol", "vol_ratio", "z_slope",
                               "z_rs", "z_rvol", "z_vol", "score", "bias"}}

\* the row holds no value in any hourly column
NoHourlyFields(r) == \A c \in HourlyColumns \cap DOMAIN r : IsNaN(r[c])

ThreeFactor(r) ==
    /\ "hourly_score" \in DOMAIN r
    /\ ~IsNaN(r.hourly_score)
    /\ r.composite_score = 40 * r.weekly_score + 35 * r.daily_score + 25 * r.hourly_score

TwoFactor(r) == r.composite_score = 55 * r.weekly_score + 45 * r.daily_score

\* C1: the weight set is chosen per symbol: three-factor for a symbol with
\* hourly data, two-factor for a symbol without, whatever the other symbols
\* of the scan have.
C1_WeightSetPerSymbol ==
    pc = "done" =>
        \A i \in 1..Len(result) :
            IF HourlyPresent(result[i].symbol)
            THEN ThreeFactor(result[i])
            ELSE TwoFactor(result[i])

\* the symbol has bars enough for the daily and weekly lookbacks and is in the
\* hourly map with fewer bars than any hourly lookback
ShortHourly(symbol) ==
    /\ symbol \in DOMAIN data_daily
    /\ symbol \in DOMAIN data_weekly
    /\ Len(data_daily[symbol]) >= DAILY_LB
    /\ Len(data_weekly[symbol]) >= WEEKLY_LB
    /\ HourlyPresent(symbol)
    /\ Len(data_hourly[symbol]) < HOURLY_SLOPE_LB

\* C2: a symbol with enough daily and weekly bars but too few hourly bars gets
\* the two-factor composite and a row without hourly fields.
C2_ShortHourlyIsTwoFactor ==
    pc = "done" =>
        \A i \in 1..Len(result) :
            ShortHourly(result[i].symbol) =>
                TwoFactor(result[i]) /\ NoHourlyFields(result[i])

\* the biases of the timeframes included for the row's symbol
IncludedBiases(r) ==
    {r.weekly_bias, r.daily_bias}
        \cup (IF HourlyPresent(r.symbol) THEN {r.hourly_bias} ELSE {})

\* C3: aligned is true iff the biases of the timeframes included for the
\* symbol are all equal and non-zero; a timeframe not included for the symbol
\* does not count.
C3_AlignedIffIncludedAgree ==
    pc = "done" =>
        \A i \in 1..Len(result) :
            result[i].aligned <=>
                (Cardinality(IncludedBiases(result[i])) = 1
                 /\ 0 \notin IncludedBiases(result[i]))

\* C4: with the benchmark missing from the daily or the weekly map the scan
\* aborts with the error naming that precondition, before any symbol is
\* processed and without any output.
C4_MissingBenchmarkAborts ==
    (pc # "start" /\ (BENCHMARK \notin DOMAIN data_daily
                      \/ BENCHMARK \notin DOMAIN data_weekly)) =>
        /\ pc = "raised"
        /\ error = "SPY missing from daily or weekly data"
        /\ idx = 0
        /\ rows = <<>>
        /\ symbols_used = <<>>
        /\ warned = <<>>
        /\ df = <<>>
        /\ result = <<>>

C4_Witness ==
    /\ pc = "raised"
    /\ BENCHMARK \in DOMAIN data_daily
    /\ BENCHMARK \notin DOMAIN data_weekly
    /\ \E s \in Stocks : s \in DOMAIN data_daily /\ s \in DOMAIN data_weekly

\* C5: an hourly map supplied without the benchmark is fatal: the scan ends
\* with an error and without output, also when there are stocks it could
\* score from the daily and weekly maps.
C5_HourlyBenchmarkMissingIsFatal ==
    (/\ hourly_supplied
     /\ BENCHMARK \notin DOMAIN data_hourly
     /\ \E s \in Stocks : s \in DOMAIN data_daily /\ s \in DOMAIN data_weekly
     /\ pc \in {"done", "raised"}) =>
            pc = "raised" /\ error # "" /\ result = <<>>

\* C5, as amended: with the benchmark in the daily and weekly maps, an hourly
\* map supplied without the benchmark is not fatal: no error is raised and the
\* rows returned are computed without the hourly timeframe (two-factor
\* composite, aligned from the weekly and daily bias, no hourly column).
C5_HourlyBenchmarkMissingDegrades ==
    (hourly_supplied /\ BENCHMARK \notin DOMAIN data_hourly
        /\ BENCHMARK \in DOMAIN data_daily /\ BENCHMARK \in DOMAIN data_weekly) =>
            /\ pc # "raised"
            /\ error = ""
            /\ pc = "done" =>
                 \A i \in 1..Len(result) :
                     /\ DOMAIN result[i] \cap HourlyColumns = {}
                     /\ TwoFactor(result[i])
                     /\ result[i].aligned <=>
                          (result[i].weekly_bias = result[i].daily_bias
                           /\ result[i].weekly_bias # 0)

C5_Witness ==
    /\ pc = "done"
    /\ hourly_supplied
    /\ BENCHMARK \notin DOMAIN data_hourly
    /\ \E i \in 1..Len(result) :
         /\ result[i].symbol \in DOMAIN data_hourly
         /\ Len(data_hourly[result[i].symbol]) >= HOURLY_LB
         /\ result[i].composite_score # 0
         /\ result[i].aligned

\* C6: a stock in the daily map but not in the weekly map is left out (with a
\* warning, no error), and every other stock that is in both maps gets a row.
C6_NoWeeklyIsSkipped ==
    /\ (BENCHMARK \in DOMAIN data_daily /\ BENCHMARK \in DOMAIN data_weekly) =>
          pc # "raised" /\ error = ""
    /\ pc = "done" =>
          \A s \in Stocks \cap DOMAIN data_daily :
              IF s \in DOMAIN data_weekly
              THEN \E i \in 1..Len(result) : result[i].symbol = s
              ELSE /\ \A i \in 1..Len(result) : result[i].symbol # s
                   /\ \E k \in 1..Len(warned) : warned[k] = s

C6_Witness ==
    /\ pc = "done"
    /\ \E s \in Stocks : s \in DOMAIN data_daily /\ s \notin DOMAIN data_weekly
    /\ Len(result) = 2

\* C7: the rows returned are in descending order of composite_score.
C7_SortedDescending ==
    pc = "done" =>
        \A i, j \in 1..Len(result) :
            i < j => result[i].composite_score >= result[j].composite_score

\* three rows with different composites that pass 2 left in another order
C7_Witness ==
    /\ pc = "done"
    /\ Len(result) = 3
    /\ result # df
    /\ \A i, j \in 1..Len(result) :
         i < j => result[i].composite_score > result[j].composite_score

\* where a symbol was collected in pass 1
Collected(symbol) == CHOOSE k \in 1..Len(symbols_used) : symbols_used[k] = symbol

\* C8: rows with equal composite_score come out in the order in which pass 1
\* collected their symbols.
C8_StableOnTies ==
    pc = "done" =>
        \A i, j \in 1..Len(result) :
            (i < j /\ result[i].composite_score = result[j].composite_score) =>
                Collected(result[i].symbol) < Collected(result[j].symbol)

\* ------------------------------------------------------------------------
\* Properties of zscore and of the timeframe scorer
\* ------------------------------------------------------------------------

\* the standard deviation of the column is zero (its defined values are all
\* the same) or undefined (fewer than two defined values)
Degenerate(s) ==
    \/ Cardinality(Defined(s)) < 2
    \/ Cardinality({s[i] : i \in Defined(s)}) = 1

Prefixes(r) ==
    {"weekly", "daily"} \cup (IF "hourly_score" \in DOMAIN r THEN {"hourly"} ELSE {})

ZeroIfNaN(z) == IF z = NaN THEN 0 ELSE z

\* C10: every timeframe score is 0.35*z_slope + 0.35*z_rs + 0.15*z_rvol +
\* 0.15*z_vol with an undefined z-score counted as 0, so every timeframe score
\* and the composite of every row are defined.
C10_ScoresAreDefined ==
    pc \in {"sort", "done"} =>
        \A i \in 1..Len(df) :
            /\ \A p \in Prefixes(df[i]) :
                 /\ df[i][Col(p, "score")] # NaN
                 /\ df[i][Col(p, "score")]
                      = 35 * ZeroIfNaN(df[i][Col(p, "z_slope")])
                        + 35 * ZeroIfNaN(df[i][Col(p, "z_rs")])
                        + 15 * ZeroIfNaN(df[i][Col(p, "z_rvol")])
                        + 15 * ZeroIfNaN(df[i][Col(p, "z_vol")])
            /\ df[i].composite_score # NaN

\* a row with an undefined z-score next to a defined one in the same timeframe
C10_Witness ==
    /\ pc = "done"
    /\ \E i \in 1..Len(result) :
         /\ result[i].daily_z_rs = NaN
         /\ result[i].daily_z_slope \notin {NaN, 0}
         /\ result[i].weekly_z_slope = NaN
         /\ result[i].daily_score # 0

\* ------------------------------------------------------------------------
\* Properties of the indicators (SpecIndicator)
\* ------------------------------------------------------------------------

\* the series the indicator reads, and the bars it needs of each
ReadBy(fn) ==
    IF fn \in {"relative_strength", "intraday_rs", "volatility_ratio"}
    THEN {series, bench} ELSE {series}

BarsNeeded(fn) == IF fn = "atr" THEN lookback + 1 ELSE lookback

TooShort(fn) == \E s \in ReadBy(fn) : Len(s) < BarsNeeded(fn)

\* C11: slope, relative_strength, relative_volume, volatility_ratio and atr
\* return the undefined value, and raise no error, whenever a series they
\* read has fewer bars than the lookback requires (lookback + 1 for atr), an
\* empty series included.
C11_ShortSeriesIsUndefined ==
    (pc \in {"returned", "exchanged"} /\ TooShort(returned.fn)) =>
        IsNaN(returned.value) /\ error = ""

\* atr asked for exactly lookback bars, one fewer than it needs
C11_Witness ==
    /\ pc = "returned"
    /\ returned.fn = "atr"
    /\ Len(series) = lookback
    /\ IsNaN(returned.value)

\* ------------------------------------------------------------------------
\* Properties of the spot scan (SpecSpot)
\* ------------------------------------------------------------------------
Timeframes == {"1h", "15m", "5m"}

BaseWeight(tf) == IF tf = "1h" THEN 50 ELSE IF tf = "15m" THEN 30 ELSE 20

RsOf(r, tf) == r[tf \o "_rs"]

\* the timeframes that produced a defined relative strength for the row
DefinedRs(r) == {tf \in Timeframes : ~IsNaN(RsOf(r, tf))}

RECURSIVE WeightedRs(_, _)
WeightedRs(r, T) ==
    IF T = {} THEN 0
    ELSE LET tf == CHOOSE t \in T : TRUE
         IN RsOf(r, tf) * BaseWeight(tf) + WeightedRs(r, T \ {tf})

RECURSIVE WeightOf(_)
WeightOf(T) ==
    IF T = {} THEN 0
    ELSE LET tf == CHOOSE t \in T : TRUE
         IN BaseWeight(tf) + WeightOf(T \ {tf})

\* C12: intraday_composite is sum(rs_tf * w_tf) / sum(w_tf) over exactly the
\* timeframes among 1h, 15m, 5m (base weights 0.50, 0.30, 0.20) that produced
\* a defined relative strength, and it is undefined iff there is none.
C12_CompositeIsRescaled ==
    pc = "spot_done" =>
        \A i \in 1..Len(result) :
            LET r == result[i]
                T == DefinedRs(r)
            IN IF T = {} THEN IsNaN(r.intraday_composite)
               ELSE /\ ~IsNaN(r.intraday_composite)
                    /\ r.intraday_composite
                         = RDiv(WeightedRs(r, T) * Prec, WeightOf(T))

\* a row with 1h and 5m only, whose composite is not the one taken against a
\* denominator of 1.0
C12_Witness ==
    /\ pc = "spot_done"
    /\ \E i \in 1..Len(result) :
          /\ DefinedRs(result[i]) = {"1h", "5m"}
          /\ result[i].intraday_composite
               = RDiv((50 * RsOf(result[i], "1h") + 20 * RsOf(result[i], "5m")) * Prec, 70)
          /\ result[i].intraday_composite
               # RDiv((50 * RsOf(result[i], "1h") + 20 * RsOf(result[i], "5m")) * Prec, 100)

\* the signs of the relative strength of the timeframes that produced one
DefinedSigns(r) == {spot_sign(RsOf(r, tf)) : tf \in DefinedRs(r)}

\* C13: intraday_aligned is true iff at least one timeframe produced a
\* defined relative strength and the relative strengths of all those
\* timeframes have the same non-zero sign; a timeframe left out of the
\* composite for lack of data does not by itself make it false.
C13_AlignedOverDefinedRs ==
    pc = "spot_done" =>
        \A i \in 1..Len(result) :
            result[i].intraday_aligned
                <=> (/\ DefinedRs(result[i]) # {}
                     /\ Cardinality(DefinedSigns(result[i])) = 1
                     /\ 0 \notin DefinedSigns(result[i]))

\* ------------------------------------------------------------------------
\* Properties of both engines (SpecEngines)
\* ------------------------------------------------------------------------
SignOf(x) == IF IsNaN(x) THEN 0 ELSE IF x > 0 THEN 1 ELSE IF x < 0 THEN -1 ELSE 0

\* C14: every bias field is the sign of its score: weekly/daily/hourly bias
\* is +1 for a score > 0, -1 for a score < 0 and 0 for a score that is zero
\* or undefined, and intraday_bias is the same function of
\* intraday_composite; no other bias value is produced.
C14_BiasIsSignOfScore ==
    /\ pc = "done" =>
          \A i \in 1..Len(result) : \A prefix \in {"weekly", "daily", "hourly"} :
              Col(prefix, "bias") \in DOMAIN result[i] =>
                  /\ result[i][Col(prefix, "bias")] \in {-1, 0, 1}
                  /\ result[i][Col(prefix, "bias")]
                        = SignOf(result[i][Col(prefix, "score")])
    /\ pc = "spot_done" =>
          \A i \in 1..Len(result) :
              /\ result[i].intraday_bias \in {-1, 0, 1}
              /\ result[i].intraday_bias = SignOf(result[i].intraday_composite)

\* a spot scan whose rows hold an undefined, a negative and a positive
\* composite
C14_Witness ==
    /\ pc = "spot_done"
    /\ \E i, j, k \in 1..Len(result) :
          /\ IsNaN(result[i].intraday_composite) /\ result[i].intraday_bias = 0
          /\ ~IsNaN(result[j].intraday_composite)
          /\ result[j].intraday_composite < 0 /\ result[j].intraday_bias = -1
          /\ result[k].intraday_composite > 0 /\ result[k].intraday_bias = 1

\* ------------------------------------------------------------------------
\* More properties of the spot scan (SpecSpot)
\* ------------------------------------------------------------------------

\* C15: spot_scan_universe returns its rows ordered descending by
\* intraday_composite: no row precedes a row with a strictly greater defined
\* intraday_composite, and every row whose intraday_composite is undefined
\* comes after all rows where it is defined.
C15_SpotSortedDescending ==
    pc = "spot_done" =>
        \A i, j \in 1..Len(result) :
            (i < j /\ ~IsNaN(result[j].intraday_composite)) =>
                /\ ~IsNaN(result[i].intraday_composite)
                /\ result[i].intraday_composite >= result[j].intraday_composite

\* three rows gathered as undefined, negative, positive and returned as
\* positive, negative, undefined
C15_Witness ==
    /\ pc = "spot_done"
    /\ Len(result) = 3
    /\ IsNaN(df[1].intraday_composite)
    /\ ~IsNaN(df[2].intraday_composite)
    /\ df[2].intraday_composite < df[3].intraday_composite
    /\ result = <<df[3], df[2], df[1]>>

\* the volumes of the trailing 20 daily bars of a symbol, summed
Volume20(symbol) ==
    LET volume == VolumeOf(data_daily[symbol])
    IN SumOver(volume, (Len(volume) - 19)..Len(volume))

\* most recent daily volume / (Volume20 / 20), in units of 1/RatioScale
LastOverAverage(symbol) ==
    RDiv(data_daily[symbol][Len(data_daily[symbol])].volume * 20 * RatioScale,
         Volume20(symbol))

\* C16: rvol_daily is defined only if the symbol has at least 12 five-minute
\* bars; when defined it is the most recent daily bar's volume divided by the
\* mean volume of the trailing 20 daily bars; it is undefined when 5m data is
\* missing or shorter than 12 bars, when there are fewer than 20 daily bars,
\* or when the 20-bar average volume is zero.  The 5m bars themselves never
\* enter the value.
C16_RvolDailyIsGated ==
    pc = "spot_done" =>
        \A i \in 1..Len(result) :
            LET symbol == result[i].symbol
            IN IF /\ symbol \in DOMAIN data_5m
                  /\ Len(data_5m[symbol]) >= 12
                  /\ Len(data_daily[symbol]) >= 20
                  /\ Volume20(symbol) # 0
               THEN result[i].rvol_daily = LastOverAverage(symbol)
               ELSE IsNaN(result[i].rvol_daily)

\* rvol_daily defined, and above 1, for a symbol whose 5m relative strength
\* is undefined because the benchmark has no 5m bars
C16_Witness ==
    /\ pc = "spot_done"
    /\ BENCHMARK \notin DOMAIN data_5m
    /\ \E i \in 1..Len(result) :
          /\ IsNaN(RsOf(result[i], "5m"))
          /\ ~IsNaN(result[i].rvol_daily)
          /\ result[i].rvol_daily > RatioScale

\* ------------------------------------------------------------------------
\* Properties of the two-stock scan (SpecPair)
\* ------------------------------------------------------------------------
HasRow(symbol) == \E i \in 1..Len(result) : result[i].symbol = symbol

RowOf(symbol) == result[CHOOSE i \in 1..Len(result) : result[i].symbol = symbol]

\* X outperforms and Y underperforms the benchmark over the RS lookback of
\* every timeframe the returned rows hold
XOutperformsYUnderperforms ==
    /\ HasRow("AAPL")
    /\ HasRow("MSFT")
    /\ \A prefix \in {"weekly", "daily", "hourly"} :
          Col(prefix, "rs") \in DOMAIN RowOf("AAPL") =>
              /\ ~IsNaN(RowOf("AAPL")[Col(prefix, "rs")])
              /\ ~IsNaN(RowOf("MSFT")[Col(prefix, "rs")])
              /\ RowOf("AAPL")[Col(prefix, "rs")] > 0
              /\ RowOf("MSFT")[Col(prefix, "rs")] < 0

\* C17: in a universe {X, Y} plus SPY where X's closes outperform SPY's over
\* the RS lookback and Y's underperform, the composite_score of X is strictly
\* greater than that of Y, for every choice of the other inputs (slope,
\* volume, volatility) of X and Y.
C17_OutperformerRanksFirst ==
    (pc = "done" /\ Len(result) = 2 /\ XOutperformsYUnderperforms) =>
        RowOf("AAPL").composite_score > RowOf("MSFT").composite_score

\* a is not behind b on a raw component; an undefined value on either side
\* leaves the component out of both scores
NotBehind(a, b) == IsNaN(a) \/ IsNaN(b) \/ a >= b

\* X is not behind Y on slope and relative volume, and not above Y on the
\* volatility ratio, in every timeframe the rows hold
XNotBehindElsewhere ==
    \A prefix \in {"weekly", "daily", "hourly"} :
        Col(prefix, "rs") \in DOMAIN RowOf("AAPL") =>
            /\ NotBehind(RowOf("AAPL")[Col(prefix, "slope")],
                         RowOf("MSFT")[Col(prefix, "slope")])
            /\ NotBehind(RowOf("AAPL")[Col(prefix, "rvol")],
                         RowOf("MSFT")[Col(prefix, "rvol")])
            /\ NotBehind(RowOf("MSFT")[Col(prefix, "vol_ratio")],
                         RowOf("AAPL")[Col(prefix, "vol_ratio")])

\* C17, as the code has it: X gets the positive and Y the negative z-score
\* on the relative-strength column of every timeframe, and X's
\* composite_score is strictly greater than Y's when X is not behind Y on the
\* other components.
C17_OutperformerRanksFirstOtherThingsEqual ==
    (pc = "done" /\ Len(result) = 2 /\ XOutperformsYUnderperforms) =>
        /\ \A prefix \in {"weekly", "daily", "hourly"} :
              Col(prefix, "rs") \in DOMAIN RowOf("AAPL") =>
                  /\ RowOf("AAPL")[Col(prefix, "z_rs")] > 0
                  /\ RowOf("MSFT")[Col(prefix, "z_rs")] < 0
        /\ XNotBehindElsewhere =>
              RowOf("AAPL").composite_score > RowOf("MSFT").composite_score

\* X ahead of Y on every component, and ranked first
C17_Witness ==
    /\ pc = "done"
    /\ Len(result) = 2
    /\ XOutperformsYUnderperforms
    /\ XNotBehindElsewhere
    /\ result[1].symbol = "AAPL"
    /\ result[1].composite_score > result[2].composite_score

\* ------------------------------------------------------------------------
\* More properties of the indicators (SpecIndicator)
\* ------------------------------------------------------------------------

\* C18: relative_strength is antisymmetric in its two series:
\* relative_strength(a, b, n) = -relative_strength(b, a, n) when both series
\* have at least n bars, and both calls are undefined otherwise.
C18_RelativeStrengthIsAntisymmetric ==
    pc = "exchanged" =>
        IF Len(series) >= lookback /\ Len(bench) >= lookback
        THEN /\ ~IsNaN(returned.value)
             /\ ~IsNaN(returned.exchanged)
             /\ returned.value = -returned.exchanged
        ELSE IsNaN(returned.value) /\ IsNaN(returned.exchanged)

\* two different series, a relative strength that is not zero, and its
\* negative for the exchanged call
C18_Witness ==
    /\ pc = "exchanged"
    /\ returned.fn = "relative_strength"
    /\ CloseOf(series) # CloseOf(bench)
    /\ ~IsNaN(returned.value)
    /\ returned.value > 0
    /\ returned.exchanged = -returned.value

\* max(high - low, |high - prev_close|, |low - prev_close|) of bar i of the
\* series handed to the indicator
RangeOfBar(i) ==
    LET hl == series[i].high - series[i].low
        hc == Abs(series[i].high - series[i - 1].close)
        lc == Abs(series[i].low - series[i - 1].close)
    IN IF hl >= hc /\ hl >= lc THEN hl ELSE IF hc >= lc THEN hc ELSE lc

\* the last lookback bars
Window == (Len(series) - lookback + 1)..Len(series)

\* C19: compute_atr(df, lookback) on a series of at least lookback + 1 bars
\* whose true range is the same constant k for each of the last lookback
\* bars returns exactly k, whatever the bars before that window are.
C19_AtrOfConstantRangeIsTheRange ==
    (/\ pc = "returned"
     /\ returned.fn = "atr"
     /\ Len(series) >= lookback + 1
     /\ \A i, j \in Window : RangeOfBar(i) = RangeOfBar(j)) =>
        returned.value = RangeOfBar(Len(series)) * Prec

\* a true range of 2 over the window after a bar whose true range is not 2
C19_Witness ==
    /\ pc = "returned"
    /\ returned.fn = "atr"
    /\ Len(series) > lookback + 1
    /\ \A i \in Window : RangeOfBar(i) = 2
    /\ \E i \in 2..Len(series) : i \notin Window /\ RangeOfBar(i) # 2
    /\ returned.value = 2 * Prec

\* ------------------------------------------------------------------------
\* Properties of one scan after another (SpecRescan)
\* ------------------------------------------------------------------------

\* what a scan of the maps now held returns when nothing but the maps goes
\* into it: the rows of the stocks in the order of the daily map, scored and
\* sorted
RsRowsFromMaps ==
    LET used == SelectSeq(DailyKeys,
                          LAMBDA s : s # BENCHMARK /\ s \in DOMAIN data_weekly)
    IN AsSeq([k \in 1..Len(used) |-> RawRow(used[k])])

RsResultsFromMaps ==
    IF RsRowsFromMaps = <<>> THEN {<<>>}
    ELSE sort_values_desc(score_universe(DataFrame(RsRowsFromMaps), hourly_available),
                          "composite_score")

SpotRowsFromMaps ==
    LET used == SelectSeq(DailyKeys,
                          LAMBDA s : s # BENCHMARK /\ BENCHMARK \in DOMAIN data_daily)
    IN AsSeq([k \in 1..Len(used) |-> spot_scan_symbol(used[k])])

SpotResultsFromMaps ==
    IF SpotRowsFromMaps = <<>> THEN {<<>>}
    ELSE sort_values_desc(DataFrame(SpotRowsFromMaps), "intraday_composite")

\* C20: a scan is a pure function of the bar snapshot with no engine-held
\* state: compute_stock_rs (or spot_scan_universe) run twice in sequence on
\* the same snapshot returns the same rows with the same values in the same
\* order, and nothing computed by an earlier scan on a different snapshot
\* changes the result of a later one.
C20_ScanIsAFunctionOfTheSnapshot ==
    /\ (pc \in {"done", "raised", "spot_done"} /\ previous.snapshot = arguments) =>
          /\ pc = previous.pc
          /\ result = previous.result
          /\ error = previous.error
    /\ pc = "raised" => benchmark_missing /\ result = <<>>
    /\ pc = "done" => ~benchmark_missing /\ result \in RsResultsFromMaps
    /\ pc = "spot_done" => result \in SpotResultsFromMaps

\* a second scan of the same maps, two of whose rows tie, has returned the
\* rows of the first in the same order
C20_Witness ==
    /\ scans = 2
    /\ pc = "done"
    /\ previous.snapshot = arguments
    /\ Len(result) = 2
    /\ result[1].composite_score = result[2].composite_score
    /\ result = previous.result

\* ------------------------------------------------------------------------
\* Properties of the pipeline of compute_stock_rs
\* ------------------------------------------------------------------------

\* the symbols compute_stock_rs includes: the stocks that are keys of both the
\* daily and the weekly map
Included == {s \in Stocks : s \in DOMAIN data_daily /\ s \in DOMAIN data_weekly}

\* the symbols of a list of rows
SymbolsOf(frame) == {frame[i].symbol : i \in 1..Len(frame)}

\* the columns pass 2 adds
NormalizedColumns ==
    {Col(p, n) : p \in {"weekly", "daily", "hourly"},
                 n \in {"z_slope", "z_rs", "z_rvol", "z_vol", "score", "bias"}}
        \cup {"composite_score", "aligned"}

\* some z-score, timeframe score or composite has been computed
Normalized(frame) ==
    \E i \in 1..Len(frame) : DOMAIN frame[i] \cap NormalizedColumns # {}

\* the raw rows are those of all included symbols, and the frame holds them
AllCollected ==
    /\ pass1_finished
    /\ SymbolsOf(rows) = Included
    /\ Len(rows) = Cardinality(Included)

\* C21: compute_stock_rs is a two-phase pipeline with a barrier: nothing is
\* normalized before the raw rows of all included symbols are collected, the
\* normalized frame is computed from exactly those rows, and the raw rows are
\* not extended once normalization has started.
C21_CollectThenNormalize ==
    /\ [](~Normalized(rows))
    /\ [](Normalized(df) =>
            /\ AllCollected
            /\ Len(df) = Len(rows)
            /\ \A i \in 1..Len(df) :
                 \A c \in DOMAIN rows[i] : df[i][c] = rows[i][c])
    /\ [][(df' # df => AllCollected) /\ (Normalized(df) => rows' = rows)]_vars

\* three stocks in the daily map, one of them skipped for want of weekly
\* data, and the two others normalized against each other
C21_Witness ==
    /\ pc = "done"
    /\ Cardinality(DOMAIN data_daily \cap Stocks) = 3
    /\ Len(warned) = 1
    /\ Len(df) = 2
    /\ df[1].weekly_z_rs # 0
    /\ df[1].weekly_z_rs = -df[2].weekly_z_rs

\* ------------------------------------------------------------------------
\* Properties of the return window of relative_strength
\* ------------------------------------------------------------------------

\* the log-return of a close series over n bar intervals: from the close n
\* positions before the last one to the last one
ReturnOverIntervals(close, n) ==
    Log(close[Len(close)]) - Log(close[Len(close) - n])

\* C22: the return window of relative_strength spans lookback bar intervals:
\* for stock and benchmark alike the reference close is the one lookback
\* positions before the last close.
C22_ReturnSpansLookbackIntervals ==
    (/\ pc = "returned"
     /\ returned.fn \in {"relative_strength", "intraday_rs"}
     /\ Len(series) >= lookback + 1
     /\ Len(bench) >= lookback + 1) =>
        returned.value = ReturnOverIntervals(CloseOf(series), lookback)
                         - ReturnOverIntervals(CloseOf(bench), lookback)

\* ------------------------------------------------------------------------
\* Properties of compute_levels
\* ------------------------------------------------------------------------

\* C23: compute_levels on a non-empty daily series shorter than its 20-bar
\* lookback returns undefined values for the rolling 20-bar high and low and
\* for the percent distances from them, and raises no error.
C23_ShortSeriesLevelsAreUndefined ==
    (pc = "levels" /\ Len(series) > 0 /\ Len(series) < LOOKBACK_20D) =>
        /\ IsNaN(returned.value.high_20d)
        /\ IsNaN(returned.value.low_20d)
        /\ IsNaN(returned.value.pct_from_20d_high)
        /\ IsNaN(returned.value.pct_from_20d_low)
        /\ error = ""

\* ------------------------------------------------------------------------
\* Properties of the sign of a z-score
\* ------------------------------------------------------------------------

\* n times (the entry minus the mean of the defined entries), n being the
\* number of defined entries: it has the sign of the entry's distance from the
\* cross-section mean
AboveMean(s, i) ==
    s[i] * Cardinality(Defined(s)) - SumOver(s, Defined(s))

\* C24: in a cross-section of two symbols with different raw values zscore
\* gives the larger one a strictly positive z-score and the other one the
\* negative z-score of the same magnitude; in any cross-section with non-zero
\* standard deviation the sign of an entry's z-score is the sign of (the entry
\* minus the mean of the defined entries).
C24_ZscoreSignFollowsTheMean ==
    (pc = "returned" /\ ~Degenerate(series)) =>
        /\ \A i \in Defined(series) :
              /\ ~IsNaN(returned[i])
              /\ SignOf(returned[i]) = SignOf(AboveMean(series, i))
        /\ (Len(series) = 2 /\ series[1] > series[2]) =>
              returned[1] > 0 /\ returned[2] = -returned[1]
        /\ (Len(series) = 2 /\ series[1] < series[2]) =>
              returned[2] > 0 /\ returned[1] = -returned[2]

\* three symbols, one below the mean, one on it and one above it
C24_Witness ==
    /\ pc = "returned"
    /\ Len(series) = 3
    /\ Defined(series) = 1..3
    /\ AboveMean(series, 1) < 0 /\ returned[1] < 0
    /\ AboveMean(series, 2) = 0 /\ returned[2] = 0
    /\ AboveMean(series, 3) > 0 /\ returned[3] > 0

\* ------------------------------------------------------------------------
\* Properties of the volatility term of a timeframe score
\* ------------------------------------------------------------------------

\* the timeframes the frame has been scored in
ScoredPrefixes(frame) ==
    {p \in {"weekly", "daily", "hourly"} : Col(p, "score") \in Columns(frame)}

\* rows a and b have the same z-scores of slope, relative strength and
\* relative volume in timeframe p
SameOtherZ(a, b, p) ==
    \A n \in {"z_slope", "z_rs", "z_rvol"} : a[Col(p, n)] = b[Col(p, n)]

\* C25: the volatility ratio is negated before z-scoring: within one
\* timeframe a symbol with a strictly lower volatility_ratio than another gets
\* a strictly higher z_vol, and a strictly higher timeframe score when its
\* other three z-scores equal the other symbol's.
C25_CalmerScoresHigher ==
    (pc \in {"sort", "done"} /\ df # <<>>) =>
        \A p \in ScoredPrefixes(df) :
            \A i, j \in 1..Len(df) :
                (/\ ~IsNaN(df[i][Col(p, "vol_ratio")])
                 /\ ~IsNaN(df[j][Col(p, "vol_ratio")])
                 /\ df[i][Col(p, "vol_ratio")] < df[j][Col(p, "vol_ratio")]) =>
                    /\ df[i][Col(p, "z_vol")] > df[j][Col(p, "z_vol")]
                    /\ SameOtherZ(df[i], df[j], p) =>
                          df[i][Col(p, "score")] > df[j][Col(p, "score")]

\* two symbols that differ in a timeframe by their volatility ratio alone
C25_Witness ==
    /\ pc = "done"
    /\ df # <<>>
    /\ \E p \in ScoredPrefixes(df) :
          \E i, j \in 1..Len(df) :
              /\ ~IsNaN(df[i][Col(p, "vol_ratio")])
              /\ ~IsNaN(df[j][Col(p, "vol_ratio")])
              /\ df[i][Col(p, "vol_ratio")] < df[j][Col(p, "vol_ratio")]
              /\ SameOtherZ(df[i], df[j], p)
              /\ df[i][Col(p, "z_slope")] # 0
              /\ df[i][Col(p, "score")] > df[j][Col(p, "score")]

\* ------------------------------------------------------------------------
\* Frame of a scan
\* ------------------------------------------------------------------------

\* the maps a scan is given
ScanInput ==
    <<data_daily, data_weekly, data_hourly, hourly_supplied,
      data_1h, data_15m, data_5m>>

\* C26: a scan leaves its input unchanged: no step of compute_stock_rs or of
\* spot_scan_universe (and of the spot_scan_symbol calls it makes), whether
\* the scan returns or aborts, changes the symbols of the daily, weekly,
\* hourly, 15m or 5m map or the bars of any series.
C26_ScanLeavesItsInputUnchanged == [][ScanInput' = ScanInput]_vars

\* a spot scan that has looked up three symbols and the benchmark in all five
\* maps and returned their rows
C26_Witness ==
    /\ pc = "spot_done"
    /\ Len(result) = 3
    /\ \A m \in {data_daily, data_weekly, data_1h, data_15m, data_5m} :
          BENCHMARK \in DOMAIN m
    /\ DOMAIN data_daily = Symbols
    /\ DOMAIN data_5m = Symbols

\* ------------------------------------------------------------------------
\* Properties of the rows compute_stock_rs returns
\* ------------------------------------------------------------------------

\* C27: the output of compute_stock_rs holds exactly one row for each symbol
\* that is a key of both the daily and the weekly map and is not the
\* benchmark: the benchmark never appears, a symbol that is only in the
\* weekly or only in the hourly map never appears, and no symbol appears
\* twice.
C27_OneRowPerIncludedSymbol ==
    pc = "done" =>
        /\ SymbolsOf(result) = (DOMAIN data_daily \cap DOMAIN data_weekly) \ {BENCHMARK}
        /\ \A i, j \in 1..Len(result) : result[i].symbol = result[j].symbol => i = j
        /\ \A i \in 1..Len(result) : result[i].symbol # BENCHMARK
        /\ \A s \in (DOMAIN data_weekly \cup DOMAIN data_hourly) \ DOMAIN data_daily :
              s \notin SymbolsOf(result)

\* one stock in all three maps, one in the daily map only and one in the
\* weekly and hourly maps only: the first alone gets a row
C27_Witness ==
    /\ pc = "done"
    /\ Len(result) = 1
    /\ \E s \in Stocks : s \in DOMAIN data_daily /\ s \notin DOMAIN data_weekly
    /\ \E s \in Stocks : /\ s \notin DOMAIN data_daily
                         /\ s \in DOMAIN data_weekly
                         /\ s \in DOMAIN data_hourly
    /\ BENCHMARK \in DOMAIN data_hourly

\* the bias columns of a row
BiasesOf(r) ==
    {r[Col(p, "bias")] : p \in {q \in {"weekly", "daily", "hourly"} :
                                    Col(q, "bias") \in DOMAIN r}}

\* C28: every row of compute_stock_rs with aligned = true has a non-zero
\* composite_score whose sign is the common bias of its timeframes; a row
\* whose composite_score is zero, or whose composite sign differs from its
\* weekly bias, is never aligned.
C28_AlignedHasTheSignOfTheComposite ==
    pc = "done" =>
        \A i \in 1..Len(result) :
            /\ result[i].aligned =>
                  /\ ~IsNaN(result[i].composite_score)
                  /\ result[i].composite_score # 0
                  /\ BiasesOf(result[i]) = {SignOf(result[i].composite_score)}
            /\ (\/ result[i].composite_score = 0
                \/ SignOf(result[i].composite_score) # result[i].weekly_bias) =>
                  ~result[i].aligned

\* an aligned row with three timeframes pointing down, next to a row that is
\* not aligned although its composite is not zero
C28_Witness ==
    /\ pc = "done"
    /\ \E i \in 1..Len(result) :
          /\ result[i].aligned
          /\ result[i].composite_score < 0
          /\ BiasesOf(result[i]) = {-1}
          /\ "hourly_bias" \in DOMAIN result[i]
    /\ \E i \in 1..Len(result) :
          /\ ~result[i].aligned
          /\ result[i].composite_score > 0
          /\ result[i].weekly_bias = 1

\* ------------------------------------------------------------------------
\* Properties of the rows of the spot scan
\* ------------------------------------------------------------------------

\* C29: whenever spot_scan_symbol reports intraday_aligned = true,
\* intraday_composite is defined and intraday_bias is non-zero and equal to
\* the common sign of the per-timeframe relative-strength values; a result
\* with intraday_bias = 0 or an undefined intraday_composite is never aligned.
C29_SpotAlignedHasTheSignOfTheComposite ==
    pc = "spot_done" =>
        \A i \in 1..Len(result) :
            LET r == result[i]
            IN /\ r.intraday_aligned =>
                    /\ ~IsNaN(r.intraday_composite)
                    /\ r.intraday_bias # 0
                    /\ DefinedRs(r) # {}
                    /\ \A tf \in DefinedRs(r) : SignOf(RsOf(r, tf)) = r.intraday_bias
               /\ (r.intraday_bias = 0 \/ IsNaN(r.intraday_composite)) =>
                    ~r.intraday_aligned

\* a row aligned downwards over three timeframes, a row whose composite is
\* undefined and a row whose relative strengths are all zero
C29_Witness ==
    /\ pc = "spot_done"
    /\ \E i \in 1..Len(result) :
          /\ result[i].intraday_aligned
          /\ DefinedRs(result[i]) = Timeframes
          /\ result[i].intraday_bias = -1
    /\ \E i \in 1..Len(result) :
          /\ IsNaN(result[i].intraday_composite)
          /\ ~result[i].intraday_aligned
    /\ \E i \in 1..Len(result) :
          /\ DefinedRs(result[i]) # {}
          /\ result[i].intraday_composite = 0
          /\ ~result[i].intraday_aligned

\* ------------------------------------------------------------------------
\* Properties of _latest_per_day
\* ------------------------------------------------------------------------

\* row j of the loaded history belongs to a latest scan of its symbol and day
LatestOfItsDay(j) ==
    \A k \in 1..Len(series) :
        GroupKey(series[k]) = GroupKey(series[j]) =>
            ~StampBefore(series[j].scan_timestamp, series[k].scan_timestamp)

\* no two scans of the loaded history were written in the same second
DistinctStamps ==
    \A j, k \in 1..Len(series) :
        (j # k /\ GroupKey(series[j]) = GroupKey(series[k])) =>
            series[j].scan_timestamp # series[k].scan_timestamp

\* C30: _latest_per_day returns exactly one row for each (symbol, scan_date)
\* pair of the loaded history, and every field of that row is taken from the
\* scan with the greatest scan_timestamp for that pair, also when that scan
\* left the field blank while an earlier scan of the same day filled it.
C30_LatestScanWins ==
    (pc = "report_done" /\ DistinctStamps) =>
        /\ GroupKeys(returned) = GroupKeys(series)
        /\ Len(returned) = Cardinality(GroupKeys(series))
        /\ \A i \in 1..Len(returned) :
              \E j \in 1..Len(series) :
                  /\ LatestOfItsDay(j)
                  /\ returned[i] = series[j]

====
